---- MODULE Spec2Model ----
(***************************************************************************)
(* tmux-copyrat: hint alphabet generator, span extractor and hint          *)
(* assignment, modelled from src/src/alphabets.rs, src/src/textbuf/model.rs *)
(* and src/src/textbuf/regexes.rs.                                         *)
(*                                                                         *)
(* A character is a one-character string, a Rust String or &str is a       *)
(* sequence of characters, and a hint is a sequence of characters.         *)
(***************************************************************************)
EXTENDS Integers, Sequences, FiniteSets, TLC

VARIABLES
    pc,          \* position of the modelled call sequence
    src_name,    \* the name handed to parse_alphabet ("" for Alphabet(..) built directly)
    alphabet,    \* Alphabet.0: a sequence of characters
    error,       \* the Err a call returned, "" when none
    nreq,        \* the n of the make_hints(n) call
    raw_matches, \* the Vec<RawMatch> raw_matches builds, handed to associate_hints
    unique,      \* the unique flag of associate_hints
    hints,       \* the Vec<String> make_hints returned
    matches,     \* the Vec<Match> associate_hints returned
    lines,       \* Model.lines
    use_all_patterns,   \* Model.use_all_patterns
    named_patterns,     \* Model.named_patterns
    custom_patterns,    \* Model.custom_patterns
    index,       \* raw_matches: the index of the line being scanned
    chunk,       \* raw_matches: the remainder of the line
    offset,      \* raw_matches: the bytes of the line before chunk
    taken,       \* raw_matches: what the last iteration of the loop took
    reverse,     \* Model.reverse
    lookup_trie, \* the SequenceTrie<char, usize> of build_lookup_trie
    inserted,    \* the number of spans build_lookup_trie has gone through
    term_width,  \* ViewController.term_width
    term_height, \* ViewController.term_height, also viewport.height
    wrapped_lines,          \* ViewController.wrapped_lines: the pos_y of every line
    total_content_height,   \* ViewController.total_content_height
    top_row,     \* ViewController.viewport.top_row
    focus_index, \* ViewController.focus_index
    focus_wrap_around,      \* ViewController.focus_wrap_around
    default_output_destination,  \* ViewController.default_output_destination
    hint_alignment,         \* ViewController.hint_alignment
    typed_hint,  \* listen: typed_hint
    uppercased,  \* listen: uppercased
    output_destination,     \* listen: output_destination
    spaces,      \* the number of Space keys listen has handled, modulo 2
    frame,       \* the last render: "none", "full" or "diff"
    painted,     \* the last render: what it wrote, in the order of the writes
    screen,      \* what the screen shows of every span after the last render
    event,       \* the Event listen returned
    selection,   \* the Option<Selection> present returned
    raw_mode,    \* the terminal: in raw mode
    alternate_screen,       \* the terminal: on the alternate screen
    cursor_hidden,          \* the terminal: cursor::Hide written last, not cursor::Show
    vp_row,      \* Viewport: the content_row of the last call of ensure_visible
    vp_scrolled, \* Viewport: what the last call of the viewport returned
    dw_s,        \* display_width: the s of the last call
    dw_col,      \* display_width: what the last call returned
    rb_line,     \* render_base_text: the line of the last call
    rb_width,    \* render_base_text: the term_width of the last call
    rb_rows,     \* render_base_text: the sub_text of every sub_row of the line
    range_start, \* Window.range.start
    range_end,   \* Window.range.end
    window_height,          \* Window.height
    window_total_height     \* Window.total_height

hintVars == << src_name, alphabet, error, nreq, unique, hints, matches >>
scanVars == << lines, use_all_patterns, named_patterns, custom_patterns,
               index, chunk, offset, taken >>
uiVars == << reverse, lookup_trie, inserted, term_width, term_height, wrapped_lines,
             total_content_height, top_row, focus_index, focus_wrap_around,
             default_output_destination, hint_alignment, typed_hint, uppercased, output_destination,
             spaces, frame, painted, screen, event, selection, raw_mode, alternate_screen,
             cursor_hidden, vp_row, vp_scrolled, dw_s, dw_col, rb_line, rb_width, rb_rows,
             range_start, range_end, window_height, window_total_height >>
vars == << pc, raw_matches, hintVars, scanVars, uiVars >>

----------------------------------------------------------------------------
(* Helpers on sequences.                                                   *)

Min(a, b) == IF a <= b THEN a ELSE b

Range(s) == { s[i] : i \in DOMAIN s }

----------------------------------------------------------------------------
(* src/src/alphabets.rs                                                    *)

\* const ALPHABETS: the catalog, in source order, letters as written.
ALPHABETS ==
    << [name |-> "qwerty",
        letters |-> << "a", "s", "d", "f", "q", "w", "e", "r", "z", "x", "c", "v", "j",
                       "k", "l", "m", "i", "u", "o", "p", "g", "h", "t", "y", "b", "n" >>],
       [name |-> "qwerty-homerow",
        letters |-> << "a", "s", "d", "f", "j", "k", "l", "g", "h" >>],
       [name |-> "qwerty-left-hand",
        letters |-> << "a", "s", "d", "f", "q", "w", "e", "r", "z", "c", "x", "v" >>],
       [name |-> "qwerty-right-hand",
        letters |-> << "j", "k", "l", "u", "i", "o", "p", "m", "y", "h", "n" >>],
       [name |-> "azerty",
        letters |-> << "q", "s", "d", "f", "a", "z", "e", "r", "w", "x", "c", "v", "j",
                       "k", "l", "m", "u", "i", "o", "p", "g", "h", "t", "y", "b", "n" >>],
       [name |-> "azerty-homerow",
        letters |-> << "q", "s", "d", "f", "j", "k", "m", "g", "h" >>],
       [name |-> "azerty-left-hand",
        letters |-> << "q", "s", "d", "f", "a", "z", "e", "r", "w", "x", "c", "v" >>],
       [name |-> "azerty-right-hand",
        letters |-> << "j", "k", "l", "m", "u", "i", "o", "p", "h", "y", "n" >>],
       [name |-> "qwertz",
        letters |-> << "a", "s", "d", "f", "q", "w", "e", "r", "y", "x", "c", "v", "j",
                       "k", "l", "u", "i", "o", "p", "m", "g", "h", "t", "z", "b", "n" >>],
       [name |-> "qwertz-homerow",
        letters |-> << "a", "s", "d", "f", "g", "h", "j", "k", "l" >>],
       [name |-> "qwertz-left-hand",
        letters |-> << "a", "s", "d", "f", "q", "w", "e", "r", "y", "x", "c", "v" >>],
       [name |-> "qwertz-right-hand",
        letters |-> << "j", "k", "l", "u", "i", "o", "p", "m", "h", "z", "n" >>],
       [name |-> "dvorak",
        letters |-> << "a", "o", "e", "u", "q", "j", "k", "x", "p", "y", "h", "t", "n",
                       "s", "g", "c", "r", "l", "m", "w", "v", "z", "f", "i", "d", "b" >>],
       [name |-> "dvorak-homerow",
        letters |-> << "a", "o", "e", "u", "h", "t", "n", "s", "i", "d" >>],
       [name |-> "dvorak-left-hand",
        letters |-> << "a", "o", "e", "u", "p", "q", "j", "k", "y", "i", "x" >>],
       [name |-> "dvorak-right-hand",
        letters |-> << "h", "t", "n", "s", "g", "c", "r", "l", "m", "w", "v", "z" >>],
       [name |-> "colemak",
        letters |-> << "a", "r", "s", "t", "q", "w", "f", "p", "z", "x", "c", "v", "n",
                       "e", "i", "o", "l", "u", "y", "m", "d", "h", "g", "j", "b", "k" >>],
       [name |-> "colemak-homerow",
        letters |-> << "a", "r", "s", "t", "n", "e", "i", "o", "d", "h" >>],
       [name |-> "colemak-left-hand",
        letters |-> << "a", "r", "s", "t", "q", "w", "f", "p", "z", "x", "c", "v" >>],
       [name |-> "colemak-right-hand",
        letters |-> << "n", "e", "i", "o", "l", "u", "y", "m", "j", "h", "k" >>],
       [name |-> "longest",
        letters |-> << "a", "o", "e", "u", "q", "j", "k", "x", "p", "y", "h", "t", "n",
                       "s", "g", "c", "r", "l", "m", "w", "v", "z", "f", "i", "d", "b",
                       "-", ";", ",", "~", "<", ">", "'", "@", "!", "#", "$", "%", "^",
                       "&", "*", "~", "1", "2", "3", "4", "5", "6", "7", "8", "9", "0" >>] >>

CatalogNames == { ALPHABETS[i].name : i \in DOMAIN ALPHABETS }

\* The keys reserved for navigation and yank.
ReservedLetters == { "n", "N", "y", "Y" }

\* parse_alphabet keeping every letter of the catalog entry.
RemoveNothing(letters) == letters

\* letters.replace(&['n', 'N', 'y', 'Y'][..], "")
RemoveReserved(letters) == SelectSeq(letters, LAMBDA c : c \notin ReservedLetters)

\* parse_alphabet(src): Ok(Alphabet) for a catalog name, Err(UnknownAlphabet)
\* otherwise.  find() returns the first entry with that name.
parse_alphabet(src) ==
    IF \E i \in DOMAIN ALPHABETS : ALPHABETS[i].name = src
    THEN LET i == CHOOSE j \in DOMAIN ALPHABETS :
                      /\ ALPHABETS[j].name = src
                      /\ \A k \in 1..(j - 1) : ALPHABETS[k].name # src
         IN  [ok |-> TRUE, letters |-> RemoveReserved(ALPHABETS[i].letters)]
    ELSE [ok |-> FALSE, error |-> "UnknownAlphabet"]

\* HintLoop with the number of generated pairs computed before the pop.
RECURSIVE HintLoopCountBeforePop(_, _, _, _)
HintLoopCountBeforePop(letters, lead, prev, n) ==
    IF Len(lead) + Len(prev) >= n THEN [lead |-> lead, prev |-> prev]
    ELSE IF lead = << >> THEN [lead |-> lead, prev |-> prev]
    ELSE LET prefix == lead[Len(lead)]
             popped == SubSeq(lead, 1, Len(lead) - 1)
             gen    == [i \in 1..Min(Len(letters), n - Len(lead) - Len(prev))
                          |-> << prefix, letters[i] >>]
         IN  HintLoopCountBeforePop(letters, popped, gen \o prev, n)

\* The loop of make_hints: pops the last letter of lead and inserts the pairs it
\* generates in front of prev, until lead and prev hold n hints or lead is empty.
RECURSIVE HintLoop(_, _, _, _)
HintLoop(letters, lead, prev, n) ==
    IF Len(lead) + Len(prev) >= n THEN [lead |-> lead, prev |-> prev]
    ELSE IF lead = << >> THEN [lead |-> lead, prev |-> prev]
    ELSE LET prefix == lead[Len(lead)]
             popped == SubSeq(lead, 1, Len(lead) - 1)
             gen    == [i \in 1..Min(Len(letters), n - Len(popped) - Len(prev))
                          |-> << prefix, letters[i] >>]
         IN  HintLoop(letters, popped, gen \o prev, n)

\* Alphabet::make_hints(&self, n).  The result is [panic |-> FALSE, hints |-> h]
\* when the call returns h, and [panic |-> TRUE, ...] when it does not return:
\* the filler count n - lead.len() - prev.len() is a usize subtraction; when it
\* is negative a debug build panics on the overflow and a release build wraps
\* to a count above 2^63, for which collect() panics with a capacity overflow.
make_hints(self, n) ==
    IF Len(self) >= n
    THEN [panic |-> FALSE, hints |-> [i \in 1..n |-> << self[i] >>]]
    ELSE LET letters == IF Len(self) * Len(self) >= n
                        THEN self
                        ELSE parse_alphabet("longest").letters
             loop    == HintLoop(letters, letters, << >>, n)
             lead    == [i \in 1..Len(loop.lead) |-> << loop.lead[i] >>]
             fill    == n - Len(lead) - Len(loop.prev)
         IN  IF fill < 0
             THEN [panic |-> TRUE, hints |-> << >>]
             ELSE [panic |-> FALSE,
                   hints |-> lead \o loop.prev \o [i \in 1..fill |-> << >>]]

----------------------------------------------------------------------------
(* src/src/textbuf/model.rs: hint assignment                               *)

\* Match { x, y, pattern, text, hint } built from a RawMatch
MakeMatch(raw_mat, hint) ==
    [x |-> raw_mat.x, y |-> raw_mat.y, pattern |-> raw_mat.pattern,
     text |-> raw_mat.text, hint |-> hint]

\* The unique branch of associate_hints taking the next hint for every span,
\* its text seen before or not.
RECURSIVE AssociateFresh(_, _, _, _, _, _)
AssociateFresh(raw, hs, i, known, used, result) ==
    IF i > Len(raw) THEN result
    ELSE AssociateFresh(raw, hs, i + 1, known, used + 1,
                        Append(result, MakeMatch(raw[i], hs[used + 1])))

\* The unique branch of associate_hints: known maps a text to its hint
\* (known.entry(text).or_insert_with(|| hints_iter.next())), used is the number
\* of hints taken from hints_iter so far.
RECURSIVE AssociateUnique(_, _, _, _, _, _)
AssociateUnique(raw, hs, i, known, used, result) ==
    IF i > Len(raw) THEN result
    ELSE LET text == raw[i].text
         IN  IF text \in DOMAIN known
             THEN AssociateUnique(raw, hs, i + 1, known, used,
                                  Append(result, MakeMatch(raw[i], known[text])))
             ELSE AssociateUnique(raw, hs, i + 1,
                                  [t \in DOMAIN known \cup {text} |->
                                      IF t = text THEN hs[used + 1] ELSE known[t]],
                                  used + 1,
                                  Append(result, MakeMatch(raw[i], hs[used + 1])))

\* Model::associate_hints(raw_matches, unique): [panic, matches].  hints_iter
\* .next() cannot fail, make_hints returning raw_matches.len() hints.
associate_hints(self, raw, uniq) ==
    LET made == make_hints(self, Len(raw))
    IN  IF made.panic
        THEN [panic |-> TRUE, matches |-> << >>]
        ELSE [panic |-> FALSE,
              matches |-> IF uniq
                          THEN AssociateUnique(raw, made.hints, 1, << >>, 0, << >>)
                          ELSE [i \in 1..Len(raw) |-> MakeMatch(raw[i], made.hints[i])]]

----------------------------------------------------------------------------
(* Regular expressions (the regex crate), as far as the patterns of        *)
(* src/src/textbuf/regexes.rs use them.  A regex is a tree; Match is the   *)
(* backtracking search whose first success is the leftmost-first match the *)
(* crate returns.  Positions are 1-based indexes of characters.            *)

\* The character 0x60, which a string of this notation cannot hold.
BACKTICK == "BACKTICK"
AsciiDigit == { "0", "1", "2", "3", "4", "5", "6", "7", "8", "9" }
AsciiLower == { "a", "b", "c", "d", "e", "f", "g", "h", "i", "j", "k", "l", "m", "n", "o", "p",
      "q", "r", "s", "t", "u", "v", "w", "x", "y", "z" }
AsciiUpper == { "A", "B", "C", "D", "E", "F", "G", "H", "I", "J", "K", "L", "M", "N", "O", "P",
      "Q", "R", "S", "T", "U", "V", "W", "X", "Y", "Z" }
\* [A-z]: the ASCII range 0x41..0x7a, punctuation between Z and a included
RangeUpperAToLowerZ == AsciiUpper \cup { "[", "\\", "]", "^", "_", BACKTICK } \cup AsciiLower
\* [A-f]: the ASCII range 0x41..0x66
RangeUpperAToLowerF == AsciiUpper \cup { "[", "\\", "]", "^", "_", BACKTICK }
                       \cup { "a", "b", "c", "d", "e", "f" }
HexLower == AsciiDigit \cup { "a", "b", "c", "d", "e", "f" }
HexAny == HexLower \cup { "A", "B", "C", "D", "E", "F" }
\* The escape character 0x1b, and [[:cntrl:]], the ASCII control characters
\* that occur in a line (a line holds no line feed).
ESC == "ESC"
Cntrl == { ESC, "\t" }
\* \w and \d (Unicode aware): letters, digits and underscore
\* A letter outside ASCII (U+00E9), two bytes long in UTF-8.
E_ACUTE == "e-acute"
WordChars == AsciiDigit \cup AsciiLower \cup AsciiUpper \cup { "_", E_ACUTE }
DigitChars == AsciiDigit

Cls(S) == [t |-> "cls", set |-> S]
NCls(S) == [t |-> "ncls", set |-> S]
Cat(items) == [t |-> "cat", items |-> items]
Alt(items) == [t |-> "alt", items |-> items]
\* a{min,max}, greedy; max = -1 for no upper limit
Rep(a, min, max) == [t |-> "rep", a |-> a, min |-> min, max |-> max]
Opt(a) == Rep(a, 0, 1)
Plus(a) == Rep(a, 1, -1)
Star(a) == Rep(a, 0, -1)
\* capture group 1; the other groups of a pattern are never read
Grp(a) == [t |-> "grp", a |-> a]
EndGrp(start) == [t |-> "endgrp", start |-> start]
WordBoundary == [t |-> "wordb"]
Lit(chars) == Cat([i \in DOMAIN chars |-> Cls({ chars[i] })])

NoMatch == [ok |-> FALSE]

IsWordAt(s, i) == i >= 1 /\ i <= Len(s) /\ s[i] \in WordChars

\* Matches the regexes of stack one after the other from position i of s;
\* g is the span of group 1 so far (<< >> while it has not taken part).
RECURSIVE Match(_, _, _, _)
Match(stack, s, i, g) ==
    IF stack = << >> THEN [ok |-> TRUE, end |-> i, g |-> g]
    ELSE LET n == Head(stack)
             rest == Tail(stack)
         IN  CASE n.t = "cls" ->
                    IF i <= Len(s) /\ s[i] \in n.set
                    THEN Match(rest, s, i + 1, g) ELSE NoMatch
               [] n.t = "ncls" ->
                    IF i <= Len(s) /\ s[i] \notin n.set
                    THEN Match(rest, s, i + 1, g) ELSE NoMatch
               [] n.t = "wordb" ->
                    IF IsWordAt(s, i - 1) # IsWordAt(s, i)
                    THEN Match(rest, s, i, g) ELSE NoMatch
               [] n.t = "cat" -> Match(n.items \o rest, s, i, g)
               [] n.t = "alt" ->
                    IF n.items = << >> THEN NoMatch
                    ELSE LET r == Match(<< Head(n.items) >> \o rest, s, i, g)
                         IN  IF r.ok THEN r
                             ELSE Match(<< Alt(Tail(n.items)) >> \o rest, s, i, g)
               [] n.t = "rep" ->
                    IF n.max = 0 THEN Match(rest, s, i, g)
                    ELSE LET more == Rep(n.a, IF n.min > 0 THEN n.min - 1 ELSE 0,
                                         IF n.max > 0 THEN n.max - 1 ELSE n.max)
                             r    == Match(<< n.a, more >> \o rest, s, i, g)
                         IN  IF n.min > 0 \/ r.ok THEN r
                             ELSE Match(rest, s, i, g)
               [] n.t = "grp" -> Match(<< n.a, EndGrp(i) >> \o rest, s, i, g)
               [] n.t = "endgrp" -> Match(rest, s, i, << n.start, i >>)

\* The leftmost match of re in s at or after position i:
\* [ok, start, end, g], start and end delimiting s[start .. end - 1].
RECURSIVE FindFrom(_, _, _)
FindFrom(re, s, i) ==
    IF i > Len(s) + 1 THEN NoMatch
    ELSE LET r == Match(<< re >>, s, i, << >>)
         IN  IF r.ok THEN [ok |-> TRUE, start |-> i, end |-> r.end, g |-> r.g]
             ELSE FindFrom(re, s, i + 1)

\* regex.find_iter(s).next(), and regex.captures(s)
Find(re, s) == FindFrom(re, s, 1)

----------------------------------------------------------------------------
(* src/src/textbuf/regexes.rs                                              *)

D12 == Rep(Cls(AsciiDigit), 1, 2)

\* [[:cntrl:]]\[([0-9]{1,2};)?([0-9]{1,2})?m
\* Its groups are never read: a match of ansi_colors emits no span.
Re_ansi_colors ==
    Cat(<< Cls(Cntrl), Cls({ "[" }), Opt(Cat(<< D12, Cls({ ";" }) >>)), Opt(D12),
           Cls({ "m" }) >>)

EXCLUDE_PATTERNS == << [name |-> "ansi_colors", re |-> Re_ansi_colors] >>

\* \[[^]]*\]\(([^)]+)\)
Re_markdown_url ==
    Cat(<< Cls({ "[" }), Star(NCls({ "]" })), Cls({ "]" }), Cls({ "(" }),
           Grp(Plus(NCls({ ")" }))), Cls({ ")" }) >>)

\* ((https?://|git@|git://|ssh://|ftp://|file:///)[^ \(\)\[\]\{\}]+)
Re_url ==
    Grp(Cat(<< Alt(<< Cat(<< Lit(<< "h", "t", "t", "p" >>), Opt(Cls({ "s" })),
                             Lit(<< ":", "/", "/" >>) >>),
                      Lit(<< "g", "i", "t", "@" >>),
                      Lit(<< "g", "i", "t", ":", "/", "/" >>),
                      Lit(<< "s", "s", "h", ":", "/", "/" >>),
                      Lit(<< "f", "t", "p", ":", "/", "/" >>),
                      Lit(<< "f", "i", "l", "e", ":", "/", "/", "/" >>) >>),
               Plus(NCls({ " ", "(", ")", "[", "]", "{", "}" })) >>))

\* \b([A-z0-9._%+-]+@[A-z0-9.-]+\.[A-z]{2,})\b
Re_email ==
    Cat(<< WordBoundary,
           Grp(Cat(<< Plus(Cls(RangeUpperAToLowerZ \cup AsciiDigit
                               \cup { ".", "_", "%", "+", "-" })),
                      Cls({ "@" }),
                      Plus(Cls(RangeUpperAToLowerZ \cup AsciiDigit \cup { ".", "-" })),
                      Cls({ "." }),
                      Rep(Cls(RangeUpperAToLowerZ), 2, -1) >>)),
           WordBoundary >>)

\* --- a/([^ ]+)
Re_diff_a ==
    Cat(<< Lit(<< "-", "-", "-", " ", "a", "/" >>), Grp(Plus(NCls({ " " }))) >>)

\* \+\+\+ b/([^ ]+)
Re_diff_b ==
    Cat(<< Lit(<< "+", "+", "+", " ", "b", "/" >>), Grp(Plus(NCls({ " " }))) >>)

\* sha256:([0-9a-f]{64})
Re_docker ==
    Cat(<< Lit(<< "s", "h", "a", "2", "5", "6", ":" >>),
           Grp(Rep(Cls(HexLower), 64, 64)) >>)

\* (([.\w\-@~]+)?(/[.\w\-@]+)+)
Re_path ==
    Grp(Cat(<< Opt(Plus(Cls(WordChars \cup { ".", "-", "@", "~" }))),
               Plus(Cat(<< Cls({ "/" }),
                           Plus(Cls(WordChars \cup { ".", "-", "@" })) >>)) >>))

\* (#[0-9a-fA-F]{6})
Re_hexcolor == Grp(Cat(<< Cls({ "#" }), Rep(Cls(HexAny), 6, 6) >>))

\* ([0-9a-f]{8}-[0-9a-f]{4}-[0-9a-f]{4}-[0-9a-f]{4}-[0-9a-f]{12})
Re_uuid ==
    Grp(Cat(<< Rep(Cls(HexLower), 8, 8), Cls({ "-" }), Rep(Cls(HexLower), 4, 4),
               Cls({ "-" }), Rep(Cls(HexLower), 4, 4), Cls({ "-" }),
               Rep(Cls(HexLower), 4, 4), Cls({ "-" }), Rep(Cls(HexLower), 12, 12) >>))

\* (v?\d{1,4}\.\d{1,4}(\.\d{1,4})?(-(alpha|beta|rc)(\.\d)?)?)[^.0-9s]
Re_version ==
    Cat(<< Grp(Cat(<< Opt(Cls({ "v" })), Rep(Cls(DigitChars), 1, 4), Cls({ "." }),
                      Rep(Cls(DigitChars), 1, 4),
                      Opt(Cat(<< Cls({ "." }), Rep(Cls(DigitChars), 1, 4) >>)),
                      Opt(Cat(<< Cls({ "-" }),
                                 Alt(<< Lit(<< "a", "l", "p", "h", "a" >>),
                                        Lit(<< "b", "e", "t", "a" >>),
                                        Lit(<< "r", "c" >>) >>),
                                 Opt(Cat(<< Cls({ "." }), Cls(DigitChars) >>)) >>)) >>)),
           NCls(AsciiDigit \cup { ".", "s" }) >>)

\* (Qm[0-9a-zA-Z]{44})
Re_ipfs ==
    Grp(Cat(<< Lit(<< "Q", "m" >>),
               Rep(Cls(AsciiDigit \cup AsciiLower \cup AsciiUpper), 44, 44) >>))

\* ([0-9A-f]{7,40})
Re_sha == Grp(Rep(Cls(AsciiDigit \cup RangeUpperAToLowerF), 7, 40))

\* (\d{1,3}\.\d{1,3}\.\d{1,3}\.\d{1,3})
Re_ipv4 ==
    Grp(Cat(<< Rep(Cls(DigitChars), 1, 3), Cls({ "." }), Rep(Cls(DigitChars), 1, 3),
               Cls({ "." }), Rep(Cls(DigitChars), 1, 3), Cls({ "." }),
               Rep(Cls(DigitChars), 1, 3) >>))

\* ([A-f0-9:]+:+[A-f0-9:]+[%\w\d]+)
Re_ipv6 ==
    Grp(Cat(<< Plus(Cls(RangeUpperAToLowerF \cup AsciiDigit \cup { ":" })),
               Plus(Cls({ ":" })),
               Plus(Cls(RangeUpperAToLowerF \cup AsciiDigit \cup { ":" })),
               Plus(Cls(WordChars \cup DigitChars \cup { "%" })) >>))

\* (0x[0-9a-fA-F]+)
Re_pointer_address == Grp(Cat(<< Lit(<< "0", "x" >>), Plus(Cls(HexAny)) >>))

\* (\d{4}-?\d{2}-?\d{2}([ T]\d{2}:\d{2}:\d{2}(\.\d{3,9})?)?)
Re_datetime ==
    Grp(Cat(<< Rep(Cls(DigitChars), 4, 4), Opt(Cls({ "-" })),
               Rep(Cls(DigitChars), 2, 2), Opt(Cls({ "-" })),
               Rep(Cls(DigitChars), 2, 2),
               Opt(Cat(<< Cls({ " ", "T" }), Rep(Cls(DigitChars), 2, 2), Cls({ ":" }),
                          Rep(Cls(DigitChars), 2, 2), Cls({ ":" }),
                          Rep(Cls(DigitChars), 2, 2),
                          Opt(Cat(<< Cls({ "." }), Rep(Cls(DigitChars), 3, 9) >>)) >>)) >>))

\* '([^']+)'
Re_quoted_single == Cat(<< Cls({ "'" }), Grp(Plus(NCls({ "'" }))), Cls({ "'" }) >>)

\* "([^"]+)"
Re_quoted_double == Cat(<< Cls({ "\"" }), Grp(Plus(NCls({ "\"" }))), Cls({ "\"" }) >>)

\* `([^`]+)`
Re_quoted_tick == Cat(<< Cls({ BACKTICK }), Grp(Plus(NCls({ BACKTICK }))), Cls({ BACKTICK }) >>)

\* ([0-9]{4,})
Re_digits == Grp(Rep(Cls(AsciiDigit), 4, -1))

\* const PATTERNS: the catalog, in source order
PATTERNS ==
    << [name |-> "markdown-url", re |-> Re_markdown_url],
       [name |-> "url", re |-> Re_url],
       [name |-> "email", re |-> Re_email],
       [name |-> "diff-a", re |-> Re_diff_a],
       [name |-> "diff-b", re |-> Re_diff_b],
       [name |-> "docker", re |-> Re_docker],
       [name |-> "path", re |-> Re_path],
       [name |-> "hexcolor", re |-> Re_hexcolor],
       [name |-> "uuid", re |-> Re_uuid],
       [name |-> "version", re |-> Re_version],
       [name |-> "ipfs", re |-> Re_ipfs],
       [name |-> "sha", re |-> Re_sha],
       [name |-> "ipv4", re |-> Re_ipv4],
       [name |-> "ipv6", re |-> Re_ipv6],
       [name |-> "pointer-address", re |-> Re_pointer_address],
       [name |-> "datetime", re |-> Re_datetime],
       [name |-> "quoted-single", re |-> Re_quoted_single],
       [name |-> "quoted-double", re |-> Re_quoted_double],
       [name |-> "quoted-tick", re |-> Re_quoted_tick],
       [name |-> "digits", re |-> Re_digits] >>

\* parse_pattern_name(src): Ok(NamedPattern(name, pattern)) for a catalog
\* name, Err(UnknownPatternName) otherwise.
parse_pattern_name(src) ==
    IF \E i \in DOMAIN PATTERNS : PATTERNS[i].name = src
    THEN [ok |-> TRUE,
          pattern |-> PATTERNS[CHOOSE i \in DOMAIN PATTERNS : PATTERNS[i].name = src]]
    ELSE [ok |-> FALSE, error |-> "UnknownPatternName"]

----------------------------------------------------------------------------
(* src/src/textbuf/model.rs: the span extractor                            *)

\* Characters that take two bytes in UTF-8; every other character takes one.
TwoByteChars == { E_ACUTE }
ByteLen(c) == IF c \in TwoByteChars THEN 2 ELSE 1

\* s.len(): the length of a string in bytes
RECURSIVE Bytes(_)
Bytes(s) == IF s = << >> THEN 0 ELSE ByteLen(Head(s)) + Bytes(Tail(s))

\* The byte offset of the character at 1-based position i of s
ByteOffset(s, i) == Bytes(SubSeq(s, 1, i - 1))

\* The pieces of two adjacent parts of a buffer put together: the last piece
\* of the first part goes on in the first piece of the second.
JoinPieces(l, r) ==
    SubSeq(l, 1, Len(l) - 1) \o << l[Len(l)] \o r[1] >> \o SubSeq(r, 2, Len(r))

\* The pieces between line feeds of the characters lo..hi of buffer, the
\* range halved to keep the evaluation shallow.
RECURSIVE SplitRange(_, _, _)
SplitRange(buffer, lo, hi) ==
    IF lo > hi THEN << << >> >>
    ELSE IF lo = hi
    THEN (IF buffer[lo] = "\n" THEN << << >>, << >> >> ELSE << << buffer[lo] >> >>)
    ELSE JoinPieces(SplitRange(buffer, lo, (lo + hi) \div 2),
                    SplitRange(buffer, (lo + hi) \div 2 + 1, hi))

\* buffer.split('\n').collect(), cur the piece begun before buffer
Split(buffer, cur) ==
    JoinPieces(<< cur >>, SplitRange(buffer, 1, Len(buffer)))

\* Regex::new(pattern) for the custom patterns of the model
CustomRegex(src) ==
    CASE src = "[0-9]\\.[0-9]" -> Cat(<< Cls(AsciiDigit), Cls({ "." }), Cls(AsciiDigit) >>)
      [] src = "@(a*)" -> Cat(<< Cls({ "@" }), Grp(Star(Cls({ "a" }))) >>)
      [] src = "x*" -> Star(Cls({ "x" }))
      [] src = " +" -> Plus(Cls({ " " }))

\* all_regexes made of the named patterns even when all patterns are asked for.
AllRegexesNamedOnly(use_all, named, custom) ==
    EXCLUDE_PATTERNS
    \o [i \in DOMAIN custom |-> [name |-> "custom", re |-> CustomRegex(custom[i])]]
    \o [i \in DOMAIN named |-> parse_pattern_name(named[i]).pattern]

\* all_regexes = [exclude_regexes, custom_regexes, regexes].concat(); named
\* holds the names of the NamedPatterns, each made by parse_pattern_name.
AllRegexes(use_all, named, custom) ==
    EXCLUDE_PATTERNS
    \o [i \in DOMAIN custom |-> [name |-> "custom", re |-> CustomRegex(custom[i])]]
    \o (IF use_all THEN PATTERNS
        ELSE [i \in DOMAIN named |-> parse_pattern_name(named[i]).pattern])

\* chunk_matches: for every regex, in the order of all_regexes, its first
\* match in the chunk, the regexes without a match left out.
ChunkMatches(regexes, chk) ==
    LET found == [i \in DOMAIN regexes |-> Find(regexes[i].re, chk)]
        hit   == SelectSeq([i \in DOMAIN regexes |-> i], LAMBDA i : found[i].ok)
    IN  [k \in DOMAIN hit |->
            [name |-> regexes[hit[k]].name, rank |-> hit[k], re |-> regexes[hit[k]].re,
             start |-> found[hit[k]].start, end |-> found[hit[k]].end]]

\* min_by keeping the last of several equally minimum elements.
RECURSIVE MinByStartLast(_, _)
MinByStartLast(ms, best) ==
    IF ms = << >> THEN best
    ELSE MinByStartLast(Tail(ms), IF best.start < Head(ms).start THEN best ELSE Head(ms))

\* Iterator::min_by(|x, y| x.start.cmp(&y.start)) after the first element:
\* the element kept is replaced only by one that compares less, so that of
\* several equally minimum elements the first is returned.
RECURSIVE MinByStart(_, _)
MinByStart(ms, best) ==
    IF ms = << >> THEN best
    ELSE MinByStart(Tail(ms), IF Head(ms).start < best.start THEN Head(ms) ELSE best)

NoneTaken == [name |-> ""]

\* captures.get(1) on the captures of the matched text: (subtext, substart),
\* substart in bytes; the whole text when group 1 took no part.
Capture1(caps, text) ==
    IF caps.g # << >>
    THEN [subtext |-> SubSeq(text, caps.g[1], caps.g[2] - 1),
          substart |-> ByteOffset(text, caps.g[1])]
    ELSE [subtext |-> text, substart |-> 0]

\* An iteration that leaves offset as it is when it skips a color escape.
TakeMatchKeepOffset(m, caps, text, chk, off, y) ==
    [done |-> FALSE,
     panic |-> ~caps.ok,
     m |-> [name |-> m.name, rank |-> m.rank, start |-> m.start, end |-> m.end],
     push |-> m.name # "ansi_colors",
     raw |-> IF caps.ok
             THEN [x |-> off + ByteOffset(chk, m.start) + Capture1(caps, text).substart,
                   y |-> y, pattern |-> m.name, text |-> Capture1(caps, text).subtext]
             ELSE << >>,
     chunk |-> SubSeq(chk, m.end, Len(chk)),
     offset |-> IF m.name = "ansi_colors" THEN off ELSE off + ByteOffset(chk, m.end)]

\* What an iteration does with the match m it took in chk: the RawMatch it
\* pushes (unless m is a color escape), the new chunk and offset; or the panic
\* of pattern.captures(text).expect(..).
TakeMatch(m, caps, text, chk, off, y) ==
    [done |-> FALSE,
     panic |-> ~caps.ok,
     m |-> [name |-> m.name, rank |-> m.rank, start |-> m.start, end |-> m.end],
     push |-> m.name # "ansi_colors",
     raw |-> IF caps.ok
             THEN [x |-> off + ByteOffset(chk, m.start) + Capture1(caps, text).substart,
                   y |-> y, pattern |-> m.name, text |-> Capture1(caps, text).subtext]
             ELSE << >>,
     chunk |-> SubSeq(chk, m.end, Len(chk)),
     offset |-> off + ByteOffset(chk, m.end)]

TakeFirst(m, chk, off, y) ==
    TakeMatch(m, Find(m.re, SubSeq(chk, m.start, m.end - 1)),
              SubSeq(chk, m.start, m.end - 1), chk, off, y)

\* One iteration of the loop of raw_matches over chunk: [done |-> TRUE] when
\* no regex matches (break), else what taking the first match leaves.
IterateOn(cms, chk, off, y) ==
    IF cms = << >> THEN [done |-> TRUE]
    ELSE TakeFirst(MinByStart(Tail(cms), Head(cms)), chk, off, y)

ScanIteration(regexes, chk, off, y) == IterateOn(ChunkMatches(regexes, chk), chk, off, y)

----------------------------------------------------------------------------
(* Inputs of the hint generator and of the hint assignment.                *)

\* Largest n of the dense range 0..MaxSmallN of make_hints inputs.
MaxSmallN == 17

\* How far past the capacity of the fallback alphabet n goes.
MaxExtra == 2

\* Number of evenly spread n between 0 and the fallback capacity.
NSamples == 9

\* Largest number of spans handed to the unique branch of associate_hints.
MaxUniqueSpans == 12

\* Alphabets built directly, as the tests do: Alphabet("abcd".to_string()).
DirectAlphabets == { << "a", "b", "c", "d" >>, << "a", "b" >>, << "a" >> }

\* Names given on the command line: the catalog and names that are not in it.
NameInputs == CatalogNames \cup { "abcd", "Qwerty", "longest " }

LongestLetters == parse_alphabet("longest").letters
LongestCapacity == Len(LongestLetters) * Len(LongestLetters)

\* The n tried for an alphabet of m letters: a dense range, the two thresholds
\* m and m^2, points spread over the fallback range, and its capacity.
NInputs(m) ==
    (0..MaxSmallN)
    \cup { m + d : d \in 0..1 } \cup { m * m + d : d \in 0..1 }
    \cup { (i * LongestCapacity) \div NSamples : i \in 1..NSamples }
    \cup { LongestCapacity + d : d \in 1..MaxExtra }

\* The decimal digits of v, 1000 <= v <= 9999, as a text.
DigitChar(d) == << "0", "1", "2", "3", "4", "5", "6", "7", "8", "9" >>[d + 1]
Digits4(v) == << DigitChar(v \div 1000), DigitChar((v \div 100) % 10),
                 DigitChar((v \div 10) % 10), DigitChar(v % 10) >>

\* The raw matches of a buffer of n lines, line i holding the number
\* 1000 + ((i - 1) mod k): one "digits" span per line, k distinct texts.
RawFamily(n, k) ==
    [i \in 1..n |-> [x |-> 0, y |-> i - 1, pattern |-> "digits",
                     text |-> Digits4(1000 + ((i - 1) % k))]]

----------------------------------------------------------------------------
(* The calls: parse or build an alphabet, then make_hints or               *)
(* associate_hints on it.                                                  *)

\* Before a model and a view controller are built.
InitUi ==
    /\ reverse = FALSE
    /\ lookup_trie = << >>
    /\ inserted = 0
    /\ term_width = 0
    /\ term_height = 0
    /\ wrapped_lines = << >>
    /\ total_content_height = 0
    /\ top_row = 0
    /\ focus_index = 0
    /\ focus_wrap_around = FALSE
    /\ default_output_destination = "Tmux"
    /\ typed_hint = << >>
    /\ uppercased = FALSE
    /\ output_destination = "Tmux"
    /\ spaces = 0
    /\ frame = "none"
    /\ painted = << >>
    /\ screen = << >>
    /\ event = [kind |-> "None"]
    /\ selection = [some |-> FALSE]
    /\ raw_mode = FALSE
    /\ alternate_screen = FALSE
    /\ cursor_hidden = FALSE
    /\ hint_alignment = "Leading"
    /\ vp_row = 0
    /\ dw_s = << >>
    /\ dw_col = 0
    /\ rb_line = << >>
    /\ rb_width = 0
    /\ rb_rows = << >>
    /\ range_start = 0
    /\ range_end = 0
    /\ window_height = 0
    /\ window_total_height = 0
    /\ vp_scrolled = FALSE

InitHints ==
    /\ InitUi
    /\ pc = "start"
    /\ src_name = ""
    /\ alphabet = << >>
    /\ error = ""
    /\ nreq = 0
    /\ raw_matches = << >>
    /\ unique = FALSE
    /\ hints = << >>
    /\ matches = << >>
    /\ lines = << >>
    /\ use_all_patterns = FALSE
    /\ named_patterns = << >>
    /\ custom_patterns = << >>
    /\ index = 0
    /\ chunk = << >>
    /\ offset = 0
    /\ taken = NoneTaken

ParseAlphabet ==
    /\ pc = "start"
    /\ \E nm \in NameInputs :
          LET r == parse_alphabet(nm)
          IN  /\ src_name' = nm
              /\ IF r.ok
                 THEN /\ alphabet' = r.letters
                      /\ error' = ""
                      /\ pc' = "ready"
                 ELSE /\ alphabet' = << >>
                      /\ error' = r.error
                      /\ pc' = "failed"
    /\ UNCHANGED << nreq, raw_matches, unique, hints, matches, scanVars, uiVars >>

BuildAlphabet ==
    /\ pc = "start"
    /\ \E a \in DirectAlphabets : alphabet' = a
    /\ pc' = "ready"
    /\ UNCHANGED << src_name, error, nreq, raw_matches, unique, hints, matches, scanVars, uiVars >>

MakeHints ==
    /\ pc = "ready"
    /\ \E n \in NInputs(Len(alphabet)) :
          LET r == make_hints(alphabet, n)
          IN  /\ nreq' = n
              /\ hints' = r.hints
              /\ pc' = IF r.panic THEN "make_hints_panicked" ELSE "made"
    /\ UNCHANGED << src_name, alphabet, error, raw_matches, unique, matches, scanVars, uiVars >>

AssociateHints ==
    /\ pc = "ready"
    /\ \E uniq \in BOOLEAN :
       \E n \in IF uniq THEN 0..MaxUniqueSpans ELSE NInputs(Len(alphabet)) :
       \E k \in (IF uniq THEN { 1, 3, n } ELSE { 1, n }) \ { 0 } :
          LET raw == RawFamily(n, k)
              r   == associate_hints(alphabet, raw, uniq)
          IN  /\ k <= n \/ n = 0
              /\ raw_matches' = raw
              /\ unique' = uniq
              /\ matches' = r.matches
              /\ pc' = IF r.panic THEN "associate_hints_panicked" ELSE "associated"
    /\ UNCHANGED << src_name, alphabet, error, nreq, hints, scanVars, uiVars >>

NextHints == ParseAlphabet \/ BuildAlphabet \/ MakeHints \/ AssociateHints

SpecHints == InitHints /\ [][NextHints]_vars

----------------------------------------------------------------------------
(* Inputs of the span extractor.                                           *)

\* Largest number of tokens a buffer is made of.
MaxTokens == 2

\* Largest number of raw matches a scan is followed to.
MaxRawMatches == 4

\* What buffers are made of: a color escape, a version, a path, an at sign,
\* a line feed.
Tokens ==
    { << ESC, "[", "3", "m" >>, << "1", ".", "2" >>, << "/", "a" >>,
      << "@" >>, << "\n" >> }

RECURSIVE BuffersOf(_)
BuffersOf(k) ==
    IF k = 0 THEN { << >> }
    ELSE LET B == BuffersOf(k - 1) IN B \cup { b \o t : b \in B, t \in Tokens }

\* The configurations tried: all patterns or named ones (-x, in the order
\* given), with and without custom patterns.
Configs ==
    { [use_all |-> TRUE, named |-> nm, custom |-> cu] :
         nm \in { << >>, << "version" >> },
         cu \in { << >>, << "[0-9]\\.[0-9]" >>, << "@(a*)" >> } }
    \cup
    { [use_all |-> FALSE, named |-> nm, custom |-> cu] :
         nm \in { << >>, << "path" >>, << "version", "path" >>, << "path", "version" >> },
         cu \in { << >>, << "[0-9]\\.[0-9]" >>, << "@(a*)" >>, << "x*" >> } }

\* Lines with an e-mail address: on its own, after an accented letter and a
\* dot, and with a local part that is a dash after an accented letter.
EmailBuffers ==
    { << "a", "@", "b", ".", "c", "o" >>,
      << E_ACUTE, ".", "a", "@", "b", ".", "c", "o" >>,
      << E_ACUTE, "-", "@", "b", ".", "c", "o" >> }

\* The models scanned: every buffer of tokens under every configuration, and
\* the lines with an e-mail address under the email pattern and under all
\* patterns.
ScanInputs ==
    { [buffer |-> b, use_all |-> c.use_all, named |-> c.named, custom |-> c.custom] :
         b \in BuffersOf(MaxTokens), c \in Configs }
    \cup { [buffer |-> b, use_all |-> FALSE, named |-> << "email" >>, custom |-> << >>] :
            b \in EmailBuffers }
    \cup { [buffer |-> b, use_all |-> TRUE, named |-> << >>, custom |-> << >>] :
            b \in EmailBuffers }

----------------------------------------------------------------------------
(* Model::new and the loops of Model::raw_matches.                         *)

InitScan ==
    /\ InitUi
    /\ pc = "start"
    /\ src_name = ""
    /\ alphabet = << >>
    /\ error = ""
    /\ nreq = 0
    /\ raw_matches = << >>
    /\ unique = FALSE
    /\ hints = << >>
    /\ matches = << >>
    /\ lines = << >>
    /\ use_all_patterns = FALSE
    /\ named_patterns = << >>
    /\ custom_patterns = << >>
    /\ index = 0
    /\ chunk = << >>
    /\ offset = 0
    /\ taken = NoneTaken

\* Model::new(buffer, .., use_all_patterns, named_patterns, custom_patterns, ..)
\* followed by the entry of raw_matches.
ModelNew ==
    /\ pc = "start"
    /\ \E c \in ScanInputs :
          /\ lines' = Split(c.buffer, << >>)
          /\ use_all_patterns' = c.use_all
          /\ named_patterns' = c.named
          /\ custom_patterns' = c.custom
    /\ pc' = "line"
    /\ UNCHANGED << raw_matches, hintVars, uiVars, index, chunk, offset, taken >>

\* for (index, line) in self.lines.iter().enumerate(): the next line, or the
\* return of raw_matches after the last one.
NextLine ==
    /\ pc = "line"
    /\ IF index < Len(lines)
       THEN /\ chunk' = lines[index + 1]
            /\ offset' = 0
            /\ pc' = "loop"
       ELSE /\ pc' = "scanned"
            /\ UNCHANGED << chunk, offset >>
    /\ taken' = NoneTaken
    /\ UNCHANGED << raw_matches, hintVars, uiVars, lines, use_all_patterns, named_patterns,
                    custom_patterns, index >>

\* One iteration of the loop over the chunk.
LoopIteration ==
    /\ pc = "loop"
    /\ Len(raw_matches) < MaxRawMatches
    /\ LET it == ScanIteration(AllRegexes(use_all_patterns, named_patterns, custom_patterns),
                               chunk, offset, index)
       IN  IF it.done
           THEN /\ index' = index + 1
                /\ pc' = "line"
                /\ taken' = NoneTaken
                /\ UNCHANGED << raw_matches, chunk, offset >>
           ELSE IF it.panic
           THEN /\ pc' = "raw_matches_panicked"
                /\ taken' = NoneTaken
                /\ UNCHANGED << raw_matches, index, chunk, offset >>
           ELSE /\ raw_matches' = IF it.push THEN Append(raw_matches, it.raw)
                                             ELSE raw_matches
                /\ chunk' = it.chunk
                /\ offset' = it.offset
                /\ taken' = [name |-> it.m.name, rank |-> it.m.rank,
                             start |-> it.m.start, end |-> it.m.end,
                             chunk |-> chunk, offset |-> offset,
                             spans |-> Len(raw_matches)]
                /\ UNCHANGED << pc, index >>
    /\ UNCHANGED << hintVars, uiVars, lines, use_all_patterns, named_patterns, custom_patterns >>

NextScan == ModelNew \/ NextLine \/ LoopIteration

SpecScan == InitScan /\ [][NextScan]_vars

----------------------------------------------------------------------------
(* src/src/textbuf/model.rs: Model::matches and Model::build_lookup_trie   *)

\* Vec::reverse
Reverse(s) == [i \in DOMAIN s |-> s[Len(s) + 1 - i]]

\* The loop of raw_matches over one line, run to its break: the raw matches
\* pushed onto acc, or the panic of an iteration.
RECURSIVE ScanChunk(_, _, _, _, _)
ScanChunk(regexes, chk, off, y, acc) ==
    LET it == ScanIteration(regexes, chk, off, y)
    IN  IF it.done THEN [panic |-> FALSE, raw |-> acc]
        ELSE IF it.panic THEN [panic |-> TRUE, raw |-> acc]
        ELSE ScanChunk(regexes, it.chunk, it.offset, y,
                       IF it.push THEN Append(acc, it.raw) ELSE acc)

\* for (index, line) in self.lines.iter().enumerate(), over the lines of
\* index lo..hi: the raw matches of the lines in the order of the lines, the
\* range halved to keep the evaluation shallow.
RECURSIVE ScanLines(_, _, _, _)
ScanLines(regexes, ls, lo, hi) ==
    IF lo > hi THEN [panic |-> FALSE, raw |-> << >>]
    ELSE IF lo = hi THEN ScanChunk(regexes, ls[lo + 1], 0, lo, << >>)
    ELSE LET mid == (lo + hi) \div 2
             l == ScanLines(regexes, ls, lo, mid)
             r == ScanLines(regexes, ls, mid + 1, hi)
         IN  IF l.panic THEN l ELSE [panic |-> r.panic, raw |-> l.raw \o r.raw]

\* Model::raw_matches(&self), the whole of it
ModelRawMatches(ls, use_all, named, custom) ==
    ScanLines(AllRegexes(use_all, named, custom), ls, 0, Len(ls) - 1)

\* Model::matches without the second reverse: the matches are left in the
\* order the hints were given in.
ModelMatchesKeepOrder(self, raw, rev, uniq) ==
    [panic |-> associate_hints(self, IF rev THEN Reverse(raw) ELSE raw, uniq).panic,
     raw |-> IF rev THEN Reverse(raw) ELSE raw,
     matches |-> associate_hints(self, IF rev THEN Reverse(raw) ELSE raw, uniq).matches]

\* Model::matches(&self, unique) on the raw matches raw of the scan, self the
\* alphabet: raw_matches.reverse() if reverse, associate_hints, then
\* matches.reverse() if reverse.  raw is the local raw_matches at the end.
ModelMatches(self, raw, rev, uniq) ==
    [panic |-> associate_hints(self, IF rev THEN Reverse(raw) ELSE raw, uniq).panic,
     raw |-> IF rev THEN Reverse(raw) ELSE raw,
     matches |-> IF rev
                 THEN Reverse(associate_hints(self, Reverse(raw), uniq).matches)
                 ELSE associate_hints(self, raw, uniq).matches]

\* s starts with p
StartsWith(s, p) == Len(p) <= Len(s) /\ SubSeq(s, 1, Len(p)) = p

\* A SequenceTrie<char, usize> is held as the function from the keys inserted
\* to their values; its nodes are the prefixes of the keys.
EmptyTrie == << >>

\* trie.get(key).is_none()
TrieGetIsNone(trie, key) == key \notin DOMAIN trie

\* trie.insert_owned(key, value)
TrieInsert(trie, key, value) ==
    [k \in DOMAIN trie \cup { key } |-> IF k = key THEN value ELSE trie[k]]

\* trie.get_node(path).is_some()
TrieHasNode(trie, path) ==
    path = << >> \/ \E k \in DOMAIN trie : StartsWith(k, path)

\* node.is_leaf(): the node at path has no children
TrieIsLeaf(trie, path) ==
    ~ \E k \in DOMAIN trie : Len(k) > Len(path) /\ StartsWith(k, path)

\* node.value().is_some()
TrieHasValue(trie, path) == path \in DOMAIN trie

\* The body of the loop of build_lookup_trie storing the 1-based index of
\* the span.
TrieAddOneBased(trie, idx, mat) ==
    IF TrieGetIsNone(trie, mat.hint) THEN TrieInsert(trie, mat.hint, idx + 1) ELSE trie

\* The body of the loop of build_lookup_trie for the span mat of 0-based
\* index idx (the i of enumerate()).
TrieAdd(trie, idx, mat) ==
    IF TrieGetIsNone(trie, mat.hint) THEN TrieInsert(trie, mat.hint, idx) ELSE trie

----------------------------------------------------------------------------
(* src/src/ui/vc.rs: Viewport and the coordinates of ViewController        *)

DEFAULT_TAB_WIDTH == 8

\* A character two columns wide (U+4E2D, East Asian Wide) and a combining
\* character (U+0301, combining acute accent).
WIDE_CJK == "wide-cjk"
COMBINING == "combining-acute"

\* UnicodeWidthChar::width(ch).unwrap_or(0): None for a control character,
\* Some(0) for a combining character, Some(2) for a wide character
CharWidth(ch) ==
    IF ch \in Cntrl THEN 0
    ELSE IF ch = COMBINING THEN 0
    ELSE IF ch = WIDE_CJK THEN 2
    ELSE 1

\* The body of the loop of display_width with the tab one tab_width further
DisplayWidthStepTabAdds(ch, tab_width, col) ==
    IF ch = "\t" THEN col + tab_width ELSE col + CharWidth(ch)

\* The body of the loop of display_width: the col after ch
DisplayWidthStep(ch, tab_width, col) ==
    IF ch = "\t"
    THEN ((col \div tab_width) + 1) * tab_width
    ELSE col + CharWidth(ch)

\* display_width(s, tab_width) from column col on
RECURSIVE DisplayWidthFrom(_, _, _)
DisplayWidthFrom(s, tab_width, col) ==
    IF s = << >> THEN col
    ELSE DisplayWidthFrom(Tail(s), tab_width, DisplayWidthStep(Head(s), tab_width, col))

display_width(s, tab_width) == DisplayWidthFrom(s, tab_width, 0)

WhiteSpace == { " ", "\t" }

\* str::trim_end
RECURSIVE trim_end(_)
trim_end(s) ==
    IF s # << >> /\ s[Len(s)] \in WhiteSpace THEN trim_end(SubSeq(s, 1, Len(s) - 1)) ELSE s

\* cmp::max(0, line_width - 1) as usize / term_width as usize, term_width > 0
ExtraRows(line, width) ==
    (IF display_width(trim_end(line), DEFAULT_TAB_WIDTH) - 1 > 0
     THEN display_width(trim_end(line), DEFAULT_TAB_WIDTH) - 1 ELSE 0) \div width

\* The rows the lines of 1-based index lo..hi take, the range halved to
\* keep the evaluation shallow.
RECURSIVE RowsOf(_, _, _, _)
RowsOf(ls, width, lo, hi) ==
    IF lo > hi THEN 0
    ELSE IF lo = hi THEN 1 + ExtraRows(ls[lo], width)
    ELSE RowsOf(ls, width, lo, (lo + hi) \div 2) + RowsOf(ls, width, (lo + hi) \div 2 + 1, hi)

\* The scan of compute_wrapped_lines over the lines of 1-based index lo..hi,
\* position the pos_y of line lo: the pos_y of these lines.
RECURSIVE WrappedFrom(_, _, _, _, _)
WrappedFrom(ls, width, lo, hi, position) ==
    IF lo > hi THEN << >>
    ELSE IF lo = hi THEN << position >>
    ELSE WrappedFrom(ls, width, lo, (lo + hi) \div 2, position)
         \o WrappedFrom(ls, width, (lo + hi) \div 2 + 1, hi,
                        position + RowsOf(ls, width, lo, (lo + hi) \div 2))

\* compute_wrapped_lines(lines, term_width)
compute_wrapped_lines(ls, width) == WrappedFrom(ls, width, 1, Len(ls), 0)

\* total_content_height as ViewController::new computes it
TotalContentHeight(ls, wrapped, width) ==
    IF wrapped = << >> THEN 0
    ELSE wrapped[Len(wrapped)] + 1 + ExtraRows(ls[Len(wrapped)], width)

\* What ch adds to the column col in the loop of render_base_text
ChWidth(ch, col) ==
    IF ch = "\t"
    THEN ((col \div DEFAULT_TAB_WIDTH) + 1) * DEFAULT_TAB_WIDTH - col
    ELSE CharWidth(ch)

\* No char_start yet (Option::None).
NoCharStart == -1

\* The loop of render_base_text over the characters of trimmed_line from the
\* one of 0-based index k on, col the column reached and char_start the
\* start found so far: << char_start, char_end >>, counted in characters.
RECURSIVE SubRowScan(_, _, _, _, _, _)
SubRowScan(trimmed_line, k, col, char_start, start_col, end_col) ==
    IF k = Len(trimmed_line) THEN << char_start, Len(trimmed_line) >>
    ELSE IF col + ChWidth(trimmed_line[k + 1], col) > end_col
    THEN << IF char_start = NoCharStart /\ col >= start_col THEN k ELSE char_start, k >>
    ELSE SubRowScan(trimmed_line, k + 1, col + ChWidth(trimmed_line[k + 1], col),
                    IF char_start = NoCharStart /\ col >= start_col THEN k ELSE char_start,
                    start_col, end_col)

\* The sub_text render_base_text writes for sub_row of trimmed_line:
\* &trimmed_line[char_start.unwrap_or(0)..char_end]
SubText(trimmed_line, line_width, sub_row) ==
    SubSeq(trimmed_line,
           (IF SubRowScan(trimmed_line, 0, 0, NoCharStart, sub_row * line_width,
                          (sub_row + 1) * line_width)[1] = NoCharStart
            THEN 0
            ELSE SubRowScan(trimmed_line, 0, 0, NoCharStart, sub_row * line_width,
                            (sub_row + 1) * line_width)[1]) + 1,
           SubRowScan(trimmed_line, 0, 0, NoCharStart, sub_row * line_width,
                      (sub_row + 1) * line_width)[2])

\* num_wrapped_rows of render_base_text for a line of width line_display_width
NumWrappedRows(line_display_width, line_width) ==
    IF line_display_width = 0 THEN 1
    ELSE (line_display_width + line_width - 1) \div line_width

\* &line[0..x]: the characters of line that lie before byte offset x
RECURSIVE BytePrefix(_, _)
BytePrefix(line, x) ==
    IF x <= 0 \/ line = << >> THEN << >>
    ELSE << Head(line) >> \o BytePrefix(Tail(line), x - ByteLen(Head(line)))

\* adjusted_span_position(span): (pos_x, pos_y)
adjusted_span_position(ls, span) ==
    << display_width(BytePrefix(ls[span.y + 1], span.x), DEFAULT_TAB_WIDTH), span.y >>

\* map_coords_to_wrapped_space(pos_x, pos_y): (new_pos_x, new_pos_y)
map_coords_to_wrapped_space(wrapped, width, pos_x, pos_y) ==
    << pos_x % width, wrapped[pos_y + 1] + (pos_x \div width) >>

\* span_content_row(span)
span_content_row(ls, wrapped, width, span) ==
    map_coords_to_wrapped_space(wrapped, width,
                                adjusted_span_position(ls, span)[1],
                                adjusted_span_position(ls, span)[2])[2]

\* Viewport::is_visible(content_row)
is_visible(top, height, content_row) ==
    content_row >= top /\ content_row < top + height

\* Viewport::ensure_visible that never scrolls down.
EnsureVisibleUpOnly(top, height, content_row) ==
    IF content_row < top THEN content_row ELSE top

\* Viewport::ensure_visible(content_row): the new top_row; a scroll occurred
\* when it differs from top.
ensure_visible(top, height, content_row) ==
    IF content_row < top THEN content_row
    ELSE IF content_row >= top + height THEN content_row - height + 1
    ELSE top

\* Viewport::ensure_visible that returns true only for a row above.
EnsureVisibleScrolledAbove(top, height, content_row) == content_row < top

\* Viewport::ensure_visible(content_row): what it returns
ensure_visible_scrolled(top, height, content_row) ==
    content_row < top \/ content_row >= top + height

\* Viewport::scroll_up(lines): what it returns
scroll_up_scrolled(top) == top > 0

\* Viewport::scroll_down(lines, max_content_height): what it returns
scroll_down_scrolled(top, height, max_content_height) ==
    top < (IF max_content_height > height THEN max_content_height - height ELSE 0)

\* Viewport::scroll_up(lines): the new top_row (saturating_sub)
scroll_up(top, n) == IF top > 0 THEN (IF top > n THEN top - n ELSE 0) ELSE top

\* Viewport::scroll_down(lines, max_content_height): the new top_row
scroll_down(top, height, n, max_content_height) ==
    IF top < (IF max_content_height > height THEN max_content_height - height ELSE 0)
    THEN Min(top + n, max_content_height - height)
    ELSE top

\* prev_focus_index that never wraps around.
PrevFocusNoWrap(focus, wrap, len) == IF focus > 0 THEN focus - 1 ELSE focus

\* prev_focus_index: the new focus_index among len spans
prev_focus_index(focus, wrap, len) ==
    IF wrap
    THEN (IF focus = 0 THEN len - 1 ELSE focus - 1)
    ELSE (IF focus > 0 THEN focus - 1 ELSE focus)

\* next_focus_index: the new focus_index among len spans
next_focus_index(focus, wrap, len) ==
    IF wrap
    THEN (IF focus = len - 1 THEN 0 ELSE focus + 1)
    ELSE (IF focus < len - 1 THEN focus + 1 ELSE focus)

\* OutputDestination::toggle
toggle(dest) == IF dest = "Tmux" THEN "Clipboard" ELSE "Tmux"

\* char::to_lowercase of the keys the model types
Lowercase(ch) == IF ch = "A" THEN "a" ELSE IF ch = "B" THEN "b" ELSE ch

----------------------------------------------------------------------------
(* Inputs of the model and of the view controller.                         *)

\* Largest number of lines of the small buffers.
MaxViewSpans == 3

\* The number of lines of the large buffer.
ManySpans == 50

\* The lines of index lo..hi of ls joined by line feeds.
RECURSIVE JoinRange(_, _, _)
JoinRange(ls, lo, hi) ==
    IF lo > hi THEN << >>
    ELSE IF lo = hi THEN ls[lo]
    ELSE JoinRange(ls, lo, (lo + hi) \div 2) \o << "\n" >>
         \o JoinRange(ls, (lo + hi) \div 2 + 1, hi)

JoinLines(ls) == JoinRange(ls, 1, Len(ls))

\* n lines, line i holding the number 1000 + ((i - 1) mod k): one "digits"
\* span per line, k distinct texts.
DigitLines(n, k) == [i \in 1..n |-> Digits4(1000 + ((i - 1) % k))]

\* Two lines of at least four columns, the second span after four dashes.
WideLines == << << "1", "0", "0", "0" >>,
                << "-", "-", "-", "-", "1", "0", "0", "1" >> >>

\* A buffer of 200 lines with a span on line 5 and a span on line 180.
ScrollLines ==
    [i \in 1..200 |-> IF i = 6 THEN << "1", "0", "0", "0" >>
                      ELSE IF i = 181 THEN << "1", "0", "0", "1" >>
                      ELSE << >>]

SmallBuffers ==
    { JoinLines(DigitLines(n, k)) : n \in 0..MaxViewSpans, k \in { 1, 2 } }
    \cup { JoinLines(WideLines) }

\* The alphabets of the small models: one of the catalog and one of two
\* letters, whose third hint has two letters.
ModelAlphabets == { parse_alphabet("qwertz-homerow").letters, << "a", "b" >> }

\* The models built: the small buffers with these alphabets, two spans with
\* an alphabet of one letter, the large buffer and the buffer to scroll.
DigitsModels ==
    { [buffer |-> b, alphabet |-> a, reverse |-> r] :
         b \in SmallBuffers, a \in ModelAlphabets, r \in BOOLEAN }
    \cup { [buffer |-> JoinLines(DigitLines(2, 2)), alphabet |-> << "a" >>, reverse |-> FALSE] }
    \cup { [buffer |-> JoinLines(DigitLines(ManySpans, ManySpans)),
            alphabet |-> << "a", "b" >>, reverse |-> FALSE] }
    \cup { [buffer |-> JoinLines(ScrollLines), alphabet |-> << "a", "b" >>, reverse |-> r] :
         r \in BOOLEAN }

\* Two lines with one URL each.
UrlLines == << << "g", "i", "t", "@", "a" >>, << "g", "i", "t", "@", "b" >> >>

\* Buffers without a span: no match at all, and ANSI colour escapes only.
SpanlessBuffers == { << "a", "b" >>, << ESC, "[", "3", "m", ESC, "[", "m" >> }

\* Three lines with one quoted letter each: spans of one character.
QuotedLines == << << "'", "a", "'" >>, << "'", "b", "'" >>, << "'", "c", "'" >> >>

\* A line as wide as the narrow terminal, followed by blanks.
BlankTailLine == << "a", "b", "c", " ", " " >>

\* The models built, each with its named and its custom patterns: the
\* buffers of numbers with the digits pattern, the two URLs with the url
\* pattern, the quoted letters with the quoted-single pattern, the buffers
\* without a span, and the line with trailing blanks with a custom pattern
\* that matches blanks.
ModelInputs ==
    { [buffer |-> m.buffer, alphabet |-> m.alphabet, reverse |-> m.reverse,
       named |-> << "digits" >>, custom |-> << >>] : m \in DigitsModels }
    \cup { [buffer |-> JoinLines(UrlLines), alphabet |-> << "a", "b" >>, reverse |-> r,
            named |-> << "url" >>, custom |-> << >>] : r \in BOOLEAN }
    \cup { [buffer |-> b, alphabet |-> << "a", "b" >>, reverse |-> r,
            named |-> << "digits" >>, custom |-> << >>] :
            b \in SpanlessBuffers, r \in BOOLEAN }
    \cup { [buffer |-> JoinLines(QuotedLines), alphabet |-> << "a", "b" >>,
            reverse |-> FALSE, named |-> << "quoted-single" >>, custom |-> << >>] }
    \cup { [buffer |-> BlankTailLine, alphabet |-> << "a", "b" >>, reverse |-> FALSE,
            named |-> << "digits" >>, custom |-> << " +" >>] }

\* What termion::terminal_size() answers ((80, 30) stands for its failure too).
TermSizes == { << 80, 30 >>, << 80, 40 >>, << 80, 60 >>, << 3, 1 >>, << 3, 0 >>, << 0, 0 >> }

\* The settings of the view controller (focus_wrap_around, the default output
\* destination, the terminal size) the lines ls are shown with: the buffer
\* to scroll in terminals lower than it, the large buffer in one higher than
\* it, the small buffers in the default one and in the narrow ones, the
\* hints at their leading edge and, for the small buffers, at the trailing
\* edge as well.
ViewConfigs(ls) ==
    IF Len(ls) = Len(ScrollLines)
    THEN { [wrap |-> w, dest |-> "Tmux", size |-> sz, align |-> "Leading"] :
              w \in BOOLEAN, sz \in { << 80, 30 >>, << 80, 40 >> } }
    ELSE IF Len(ls) > MaxViewSpans
    THEN { [wrap |-> FALSE, dest |-> "Tmux", size |-> << 80, 60 >>, align |-> "Leading"] }
    ELSE { [wrap |-> w, dest |-> d, size |-> << 80, 30 >>, align |-> "Leading"] :
              w \in BOOLEAN, d \in { "Tmux", "Clipboard" } }
         \cup { [wrap |-> FALSE, dest |-> "Tmux", size |-> sz, align |-> "Leading"] :
                   sz \in { << 3, 1 >>, << 3, 0 >>, << 0, 0 >> } }
         \cup { [wrap |-> FALSE, dest |-> "Tmux", size |-> << 80, 30 >>,
                 align |-> "Trailing"] }

OutputDestinations == { "Tmux", "Clipboard" }

\* HintAlignment::{Leading, Trailing}
HintAlignments == { "Leading", "Trailing" }

\* The character keys typed that are not keys of the key table.
HintKeys == { "a", "A", "b", "B", "s", "~" }

----------------------------------------------------------------------------
(* The model, the view controller and the key loop of present.             *)

trieVars == << lookup_trie, inserted >>
viewVars == << term_width, term_height, wrapped_lines, total_content_height, top_row,
               focus_index, focus_wrap_around, default_output_destination, hint_alignment >>
listenVars == << typed_hint, uppercased, output_destination, spaces, frame, painted, screen,
                 event, selection >>
termVars == << raw_mode, alternate_screen, cursor_hidden >>
widthVars == << dw_s, dw_col >>
baseVars == << rb_line, rb_width, rb_rows >>
windowVars == << range_start, range_end, window_height, window_total_height >>
callVars == << vp_row, vp_scrolled, widthVars, baseVars, windowVars >>
modelVars == << src_name, alphabet, error, nreq, hints, lines, use_all_patterns,
                named_patterns, custom_patterns, index, chunk, offset, taken, reverse >>

\* Nothing is built yet.
InitView == InitScan

\* Model::new(buffer, alphabet, use_all_patterns, named_patterns,
\* custom_patterns, reverse)
ViewModelNew ==
    /\ pc = "start"
    /\ \E m \in ModelInputs :
          /\ lines' = Split(m.buffer, << >>)
          /\ alphabet' = m.alphabet
          /\ reverse' = m.reverse
          /\ named_patterns' = m.named
          /\ custom_patterns' = m.custom
    /\ use_all_patterns' = FALSE
    /\ pc' = "model"
    /\ UNCHANGED << raw_matches, src_name, error, nreq, unique, hints, matches,
                    index, chunk, offset, taken, trieVars, viewVars, listenVars,
                    termVars, callVars >>

\* What Matches leaves, r the result of ModelMatches.
MatchesResult(scan_panic, r) ==
    /\ raw_matches' = r.raw
    /\ matches' = IF scan_panic \/ r.panic THEN << >> ELSE r.matches
    /\ pc' = IF scan_panic \/ r.panic THEN "matches_panicked" ELSE "matched"

\* model.matches(unique)
Matches ==
    /\ pc = "model"
    /\ \E uniq \in BOOLEAN :
          /\ unique' = uniq
          /\ MatchesResult(
                ModelRawMatches(lines, use_all_patterns, named_patterns, custom_patterns).panic,
                ModelMatches(alphabet,
                    ModelRawMatches(lines, use_all_patterns, named_patterns, custom_patterns).raw,
                    reverse, uniq))
    /\ UNCHANGED << modelVars, trieVars, viewVars, listenVars, termVars, callVars >>

\* Model::build_lookup_trie(&matches): one turn of its loop, inserted the
\* number of spans the loop has gone through.
BuildLookupTrie ==
    /\ pc = "matched"
    /\ inserted < Len(matches)
    /\ lookup_trie' = TrieAdd(lookup_trie, inserted, matches[inserted + 1])
    /\ inserted' = inserted + 1
    /\ UNCHANGED << pc, raw_matches, unique, matches, modelVars, viewVars, listenVars,
                    termVars, callVars >>

\* Model::build_lookup_trie(&matches): the end of its loop
BuildLookupTrieEnd ==
    /\ pc = "matched"
    /\ inserted = Len(matches)
    /\ pc' = "trie"
    /\ UNCHANGED << raw_matches, unique, matches, modelVars, trieVars, viewVars, listenVars,
                    termVars, callVars >>

\* The spans of the model the view controller shows.
Spans == matches

\* span_content_row of the span of 0-based index i
RowOfSpan(i) == span_content_row(lines, wrapped_lines, term_width, Spans[i + 1])

\* run: None as soon as the model has no span, before any view controller
RunWithoutSpans ==
    /\ pc = "trie"
    /\ Spans = << >>
    /\ pc' = "returned"
    /\ selection' = [some |-> FALSE]
    /\ UNCHANGED << raw_matches, unique, matches, modelVars, trieVars, viewVars,
                    typed_hint, uppercased, output_destination, spaces, frame, painted, screen,
                    event, termVars, callVars >>

\* ViewController::new: the focus, the terminal size, the wrapped lines and
\* the viewport scrolled to the focused span; a terminal of width 0 divides
\* by zero in compute_wrapped_lines.
ViewControllerNew ==
    /\ pc = "trie"
    /\ \E wrap \in BOOLEAN, dest \in OutputDestinations, size \in TermSizes,
          align \in HintAlignments :
          /\ [wrap |-> wrap, dest |-> dest, size |-> size, align |-> align]
                \in ViewConfigs(lines)
          /\ focus_wrap_around' = wrap
          /\ hint_alignment' = align
          /\ default_output_destination' = dest
          /\ term_width' = size[1]
          /\ term_height' = size[2]
          /\ focus_index' = IF reverse /\ Len(Spans) > 0 THEN Len(Spans) - 1 ELSE 0
          /\ IF size[1] = 0
             THEN /\ pc' = "new_panicked"
                  /\ UNCHANGED << wrapped_lines, total_content_height, top_row >>
             ELSE /\ pc' = "vc"
                  /\ wrapped_lines' = compute_wrapped_lines(lines, size[1])
                  /\ total_content_height' =
                        TotalContentHeight(lines, compute_wrapped_lines(lines, size[1]), size[1])
                  /\ top_row' =
                        IF Spans = << >> THEN 0
                        ELSE ensure_visible(0, size[2],
                                 span_content_row(lines, compute_wrapped_lines(lines, size[1]),
                                                  size[1], Spans[focus_index' + 1]))
    /\ UNCHANGED << raw_matches, unique, matches, modelVars, trieVars, listenVars,
                    termVars, callVars >>

\* Event::Exit and Event::Select(Selection { .. })
EventExit == [kind |-> "Exit"]
\* Event::Select of a Selection that is always uppercased.
EventSelectUppercased(text, upper, dest) ==
    [kind |-> "Select", text |-> text, uppercased |-> TRUE, output_destination |-> dest]

EventSelect(text, upper, dest) ==
    [kind |-> "Select", text |-> text, uppercased |-> upper, output_destination |-> dest]

\* The offset of render_span for the hint of the span of 0-based index i:
\* 0 or text.len() - span.hint.len(), in bytes. The difference of the two
\* usize is kept as an integer: below 0 the subtraction overflows, which
\* panics in a build with overflow checks and wraps to 2^64 + offset in one
\* without.
hint_offset(i) ==
    IF hint_alignment = "Leading" THEN 0
    ELSE Bytes(Spans[i + 1].text) - Bytes(Spans[i + 1].hint)

\* render_span(stdout, span, focused) of the span of 0-based index i, top the
\* top_row of the viewport: nothing when screen_y is None, else the text of
\* the span and, when it is not focused, its hint over it at its offset.
render_span(i, focused, top) ==
    IF ~is_visible(top, term_height, RowOfSpan(i)) THEN << >>
    ELSE IF focused THEN << [op |-> "text", span |-> i, focused |-> TRUE] >>
    ELSE << [op |-> "text", span |-> i, focused |-> FALSE],
            [op |-> "hint", span |-> i, offset |-> hint_offset(i)] >>

\* The loop of full_render over the spans lo..hi, focus the focus_index.
RECURSIVE RenderSpans(_, _, _, _)
RenderSpans(lo, hi, focus, top) ==
    IF lo > hi THEN << >>
    ELSE IF lo = hi THEN render_span(lo, lo = focus, top)
    ELSE RenderSpans(lo, (lo + hi) \div 2, focus, top)
            \o RenderSpans((lo + hi) \div 2 + 1, hi, focus, top)

\* render_scroll_indicator: only when the content exceeds the viewport
render_scroll_indicator(top) ==
    IF total_content_height <= term_height THEN << >>
    ELSE << [op |-> "indicator", top |-> top] >>

\* full_render: clear::All, the base text, every span, the scroll indicator
full_render(focus, top) ==
    << [op |-> "clear"], [op |-> "base", top |-> top] >>
        \o RenderSpans(0, Len(Spans) - 1, focus, top)
        \o render_scroll_indicator(top)

\* diff_render painting the newly focused span first.
DiffRenderNewFirst(old_focus_index, new_focus_index, top) ==
    render_span(new_focus_index, TRUE, top) \o render_span(old_focus_index, FALSE, top)

\* diff_render(stdout, old_focus_index, new_focus_index)
diff_render(old_focus_index, new_focus_index, top) ==
    render_span(old_focus_index, FALSE, top) \o render_span(new_focus_index, TRUE, top)

\* What the screen shows of a span: its text in the colours of the base
\* text ("none"), of a span or of the focused span, and whether (part of) its
\* hint lies over it.
Unpainted == [text |-> "none", hint |-> FALSE]

\* The screen after clear::All, and the alternate screen when it is entered.
BlankScreen == [i \in 0..(Len(Spans) - 1) |-> Unpainted]

\* The hint of the span of 0-based index i is not wider than its text, so
\* that the text painted at the leading edge covers the whole hint.
HintWithinText(i) == Len(Spans[i + 1].hint) <= Len(Spans[i + 1].text)

\* render_span_text and render_span_hint on what the screen shows of a span:
\* the text is written over the span and over the hint as far as it goes,
\* the hint over the text.
PaintCell(cell, o) ==
    IF o.op = "text"
    THEN [text |-> IF o.focused THEN "focused" ELSE "span",
          hint |-> cell.hint /\ ~HintWithinText(o.span)]
    ELSE [cell EXCEPT !.hint = TRUE]

RECURSIVE PaintCells(_, _)
PaintCells(cell, ops) ==
    IF ops = << >> THEN cell ELSE PaintCells(PaintCell(cell, Head(ops)), Tail(ops))

\* The screen after the writes ops of a render on the screen scr.
ScreenAfter(scr, ops) ==
    [i \in 0..(Len(Spans) - 1) |->
        PaintCells(IF ops # << >> /\ ops[1].op = "clear" THEN Unpainted ELSE scr[i],
                   SelectSeq(ops, LAMBDA o : o.op \in { "text", "hint" } /\ o.span = i))]

\* A panic inside listen unwinds present: stdout is dropped, which leaves the
\* alternate screen and the raw mode; cursor::Show is not written.
ListenPanics ==
    /\ pc' = "listen_panicked"
    /\ raw_mode' = FALSE
    /\ alternate_screen' = FALSE
    /\ UNCHANGED cursor_hidden

\* The loop of listen goes on to its next key.
ListenContinues ==
    /\ pc' = "listening"
    /\ UNCHANGED termVars

\* The writes ops hold a hint whose offset has underflowed.
HintUnderflows(ops) ==
    \E k \in 1..Len(ops) : ops[k].op = "hint" /\ ops[k].offset < 0

\* The end of a render of the loop of listen that wrote ops: a panic when a
\* write or the flush fails (unwrap()) and, in a build with overflow checks,
\* when the offset of a hint underflows; else the loop goes on.
RenderEnds(ops) ==
    \E io_ok \in BOOLEAN, overflow_checks \in BOOLEAN :
        IF io_ok /\ ~(overflow_checks /\ HintUnderflows(ops))
        THEN ListenContinues
        ELSE ListenPanics

\* listen breaks out of its loop or returns.
ListenReturns ==
    /\ pc' = "listen_returned"
    /\ UNCHANGED termVars

\* self.model.spans.is_empty() never true.
SpansNeverEmpty == FALSE

\* self.model.spans.is_empty() at the start of listen
SpansIsEmpty == Spans = << >>

\* present up to the key loop of listen: raw mode, alternate screen and the
\* hidden cursor (each may fail, and what was entered is left again by the
\* drops of the unwinding), then listen: Event::Exit at once without spans,
\* else the locals of the loop and the first full_render (whose writes may
\* fail as well, and which panics in a build with overflow checks when the
\* offset of a hint underflows).
Present ==
    /\ pc = "vc"
    /\ \E io \in { "ok", "setup_fails", "render_fails", "overflow_checks" } :
          IF io = "setup_fails"
          THEN /\ pc' = "present_panicked"
               /\ UNCHANGED << listenVars, termVars >>
          ELSE IF SpansIsEmpty
          THEN /\ pc' = "listen_returned"
               /\ event' = EventExit
               /\ raw_mode' = TRUE
               /\ alternate_screen' = TRUE
               /\ cursor_hidden' = TRUE
               /\ UNCHANGED << typed_hint, uppercased, output_destination, spaces, frame,
                               painted, screen, selection >>
          ELSE /\ typed_hint' = << >>
               /\ uppercased' = FALSE
               /\ output_destination' = default_output_destination
               /\ frame' = "full"
               /\ painted' = full_render(focus_index, top_row)
               /\ screen' = ScreenAfter(BlankScreen, full_render(focus_index, top_row))
               /\ cursor_hidden' = TRUE
               /\ IF io = "ok" \/ (io = "overflow_checks"
                                    /\ ~HintUnderflows(full_render(focus_index, top_row)))
                  THEN /\ pc' = "listening"
                       /\ raw_mode' = TRUE
                       /\ alternate_screen' = TRUE
                  ELSE /\ pc' = "listen_panicked"
                       /\ raw_mode' = FALSE
                       /\ alternate_screen' = FALSE
               /\ UNCHANGED << spaces, event, selection >>
    /\ UNCHANGED << raw_matches, unique, matches, modelVars, trieVars, viewVars, callVars >>

\* What no key of the loop changes.
builtVars == << raw_matches, unique, matches, modelVars, trieVars, term_width,
                term_height, wrapped_lines, total_content_height, focus_wrap_around,
                default_output_destination, hint_alignment, selection, callVars >>

\* reader.keys().next() is Some(Err(err)): panic!("{}", err)
KeyError ==
    /\ pc = "listening"
    /\ ListenPanics
    /\ UNCHANGED << builtVars, top_row, focus_index, typed_hint, uppercased,
                    output_destination, spaces, frame, painted, screen, event >>

\* Key::Esc: break, and Event::Exit after the loop
KeyEsc ==
    /\ pc = "listening"
    /\ ListenReturns
    /\ event' = EventExit
    /\ UNCHANGED << builtVars, top_row, focus_index, typed_hint, uppercased,
                    output_destination, spaces, frame, painted, screen >>

\* handle_focus_change(old_index, new_index, writer): ensure_visible, then a
\* full render when the viewport scrolled and a diff render otherwise; the
\* writes of a render may fail.
HandleFocusChange(new_index) ==
    /\ focus_index' = new_index
    /\ top_row' = ensure_visible(top_row, term_height, RowOfSpan(new_index))
    /\ IF ensure_visible_scrolled(top_row, term_height, RowOfSpan(new_index))
       THEN /\ frame' = "full"
            /\ painted' = full_render(new_index,
                              ensure_visible(top_row, term_height, RowOfSpan(new_index)))
            /\ screen' = ScreenAfter(screen, full_render(new_index,
                              ensure_visible(top_row, term_height, RowOfSpan(new_index))))
       ELSE /\ frame' = "diff"
            /\ painted' = diff_render(focus_index, new_index, top_row)
            /\ screen' = ScreenAfter(screen, diff_render(focus_index, new_index, top_row))
    /\ RenderEnds(painted')
    /\ UNCHANGED << builtVars, typed_hint, uppercased, output_destination, spaces, event >>

KeyUp ==
    /\ pc = "listening"
    /\ HandleFocusChange(prev_focus_index(focus_index, focus_wrap_around, Len(Spans)))

KeyDown ==
    /\ pc = "listening"
    /\ HandleFocusChange(next_focus_index(focus_index, focus_wrap_around, Len(Spans)))

KeyLeft ==
    /\ pc = "listening"
    /\ HandleFocusChange(prev_focus_index(focus_index, focus_wrap_around, Len(Spans)))

KeyRight ==
    /\ pc = "listening"
    /\ HandleFocusChange(next_focus_index(focus_index, focus_wrap_around, Len(Spans)))

\* Key::Char('n') moving to the next span whatever reverse is.
KeyLowerNUnswapped ==
    /\ pc = "listening"
    /\ HandleFocusChange(next_focus_index(focus_index, focus_wrap_around, Len(Spans)))

\* Key::Char('n')
KeyLowerN ==
    /\ pc = "listening"
    /\ HandleFocusChange(
          IF reverse THEN prev_focus_index(focus_index, focus_wrap_around, Len(Spans))
          ELSE next_focus_index(focus_index, focus_wrap_around, Len(Spans)))

\* Key::Char('N')
KeyUpperN ==
    /\ pc = "listening"
    /\ HandleFocusChange(
          IF reverse THEN next_focus_index(focus_index, focus_wrap_around, Len(Spans))
          ELSE prev_focus_index(focus_index, focus_wrap_around, Len(Spans)))

\* A manual scroll to new_top, did_scroll what scroll_up or scroll_down
\* returned: a full render when it is true; the writes of the render may fail.
ManualScroll(new_top, did_scroll) ==
    /\ top_row' = new_top
    /\ IF did_scroll
       THEN /\ frame' = "full"
            /\ painted' = full_render(focus_index, new_top)
            /\ screen' = ScreenAfter(screen, full_render(focus_index, new_top))
            /\ RenderEnds(painted')
       ELSE UNCHANGED << frame, painted, screen, pc, termVars >>
    /\ UNCHANGED << builtVars, focus_index, typed_hint, uppercased, output_destination,
                    spaces, event >>

KeyPageUp ==
    /\ pc = "listening"
    /\ ManualScroll(scroll_up(top_row, term_height \div 2), scroll_up_scrolled(top_row))

KeyPageDown ==
    /\ pc = "listening"
    /\ ManualScroll(scroll_down(top_row, term_height, term_height \div 2,
                                total_content_height),
                    scroll_down_scrolled(top_row, term_height, total_content_height))

\* Key::Char('y') | Key::Char('\n') selecting with the flag of the typed hint.
KeyYankTypedFlag ==
    /\ pc = "listening"
    /\ event' = EventSelect(Spans[focus_index + 1].text, uppercased, output_destination)
    /\ ListenReturns
    /\ UNCHANGED << builtVars, top_row, focus_index, typed_hint, uppercased,
                    output_destination, spaces, frame, painted, screen >>

\* Key::Char('y') | Key::Char('\n')
KeyYank ==
    /\ pc = "listening"
    /\ event' = EventSelect(Spans[focus_index + 1].text, FALSE, output_destination)
    /\ ListenReturns
    /\ UNCHANGED << builtVars, top_row, focus_index, typed_hint, uppercased,
                    output_destination, spaces, frame, painted, screen >>

\* Key::Char('Y')
KeyUpperY ==
    /\ pc = "listening"
    /\ event' = EventSelect(Spans[focus_index + 1].text, TRUE, output_destination)
    /\ ListenReturns
    /\ UNCHANGED << builtVars, top_row, focus_index, typed_hint, uppercased,
                    output_destination, spaces, frame, painted, screen >>

\* Key::Char(' ') starting the hint over.
KeySpaceForgetsHint ==
    /\ pc = "listening"
    /\ spaces' = (spaces + 1) % 2
    /\ output_destination' = toggle(output_destination)
    /\ typed_hint' = << >>
    /\ \E notified \in BOOLEAN : IF notified THEN ListenContinues ELSE ListenPanics
    /\ UNCHANGED << builtVars, top_row, focus_index, uppercased, frame, painted, screen,
                    event >>

\* Key::Char(' '): toggle, then tmux display-message, whose failure panics
\* (.expect("could not make tmux display the message.")).
KeySpace ==
    /\ pc = "listening"
    /\ spaces' = (spaces + 1) % 2
    /\ output_destination' = toggle(output_destination)
    /\ \E notified \in BOOLEAN : IF notified THEN ListenContinues ELSE ListenPanics
    /\ UNCHANGED << builtVars, top_row, focus_index, typed_hint, uppercased, frame,
                    painted, screen, event >>

\* Key::Char(ch) whose flag is that of the last key only.
KeyCharLastKeyFlag ==
    /\ pc = "listening"
    /\ \E ch \in HintKeys :
          /\ uppercased' = (ch # Lowercase(ch))
          /\ typed_hint' = Append(typed_hint, Lowercase(ch))
          /\ IF ~TrieHasNode(lookup_trie, Append(typed_hint, Lowercase(ch)))
             THEN /\ event' = EventExit
                  /\ ListenReturns
             ELSE IF ~TrieIsLeaf(lookup_trie, Append(typed_hint, Lowercase(ch)))
             THEN UNCHANGED << event, pc, termVars >>
             ELSE IF ~TrieHasValue(lookup_trie, Append(typed_hint, Lowercase(ch)))
                     \/ lookup_trie[Append(typed_hint, Lowercase(ch))] >= Len(Spans)
             THEN /\ ListenPanics
                  /\ UNCHANGED event
             ELSE /\ event' = EventSelect(
                        Spans[lookup_trie[Append(typed_hint, Lowercase(ch))] + 1].text,
                        ch # Lowercase(ch), output_destination)
                  /\ ListenReturns
    /\ UNCHANGED << builtVars, top_row, focus_index, output_destination, spaces, frame,
                    painted, screen >>

\* Key::Char(ch), any other character
KeyChar ==
    /\ pc = "listening"
    /\ \E ch \in HintKeys :
          /\ uppercased' = (uppercased \/ ch # Lowercase(ch))
          /\ typed_hint' = Append(typed_hint, Lowercase(ch))
          /\ IF ~TrieHasNode(lookup_trie, Append(typed_hint, Lowercase(ch)))
             THEN /\ event' = EventExit
                  /\ ListenReturns
             ELSE IF ~TrieIsLeaf(lookup_trie, Append(typed_hint, Lowercase(ch)))
             THEN UNCHANGED << event, pc, termVars >>
             ELSE IF ~TrieHasValue(lookup_trie, Append(typed_hint, Lowercase(ch)))
                     \/ lookup_trie[Append(typed_hint, Lowercase(ch))] >= Len(Spans)
             THEN /\ ListenPanics
                  /\ UNCHANGED event
             ELSE /\ event' = EventSelect(
                        Spans[lookup_trie[Append(typed_hint, Lowercase(ch))] + 1].text,
                        uppercased \/ ch # Lowercase(ch), output_destination)
                  /\ ListenReturns
    /\ UNCHANGED << builtVars, top_row, focus_index, output_destination, spaces, frame,
                    painted, screen >>

\* Any other key ending the loop as Esc does.
KeyUnknownExits ==
    /\ pc = "listening"
    /\ ListenReturns
    /\ event' = EventExit
    /\ UNCHANGED << builtVars, top_row, focus_index, typed_hint, uppercased,
                    output_destination, spaces, frame, painted, screen >>

\* Any other key (a function key, Insert, ..): ignored
KeyUnknown ==
    /\ pc = "listening"
    /\ UNCHANGED vars

\* present after listen: the Event turned into Option<Selection>, cursor::Show
\* written (the write may fail), and stdout dropped, which leaves the
\* alternate screen and the raw mode.
PresentReturn ==
    /\ pc = "listen_returned"
    /\ raw_mode' = FALSE
    /\ alternate_screen' = FALSE
    /\ \E io_ok \in BOOLEAN :
          IF io_ok
          THEN /\ pc' = "returned"
               /\ cursor_hidden' = FALSE
               /\ selection' = IF event.kind = "Exit" THEN [some |-> FALSE]
                               ELSE [some |-> TRUE, text |-> event.text,
                                     uppercased |-> event.uppercased,
                                     output_destination |-> event.output_destination]
          ELSE /\ pc' = "present_panicked"
               /\ UNCHANGED << selection, cursor_hidden >>
    /\ UNCHANGED << raw_matches, unique, matches, modelVars, trieVars, viewVars,
                    typed_hint, uppercased, output_destination, spaces, frame, painted, screen,
                    event, callVars >>

NextView ==
    \/ ViewModelNew \/ Matches \/ BuildLookupTrie \/ BuildLookupTrieEnd
    \/ RunWithoutSpans \/ ViewControllerNew \/ Present
    \/ KeyError \/ KeyEsc \/ KeyUp \/ KeyDown \/ KeyLeft \/ KeyRight
    \/ KeyLowerN \/ KeyUpperN \/ KeyPageUp \/ KeyPageDown \/ KeyYank \/ KeyUpperY
    \/ KeySpace \/ KeyChar \/ KeyUnknown \/ PresentReturn

SpecView == InitView /\ [][NextView]_vars

----------------------------------------------------------------------------
(* The viewport on its own: its calls on every small viewport.             *)

\* The largest height of these viewports and the largest row asked for.
MaxVpHeight == 4
MaxVpRow == 8

\* No viewport yet.
InitViewport == InitScan

\* What a call of the viewport leaves alone.
vpRest == << raw_matches, hintVars, scanVars, reverse, lookup_trie, inserted, term_width,
            wrapped_lines, focus_index, focus_wrap_around, default_output_destination,
            hint_alignment, listenVars, termVars, widthVars, baseVars, windowVars >>

\* Viewport::new(height), over a content of any height
ViewportNew ==
    /\ pc = "start"
    /\ \E h \in 0..MaxVpHeight, total \in 0..(MaxVpRow + 1) :
          /\ term_height' = h
          /\ total_content_height' = total
    /\ top_row' = 0
    /\ pc' = "viewport"
    /\ UNCHANGED << vpRest, callVars >>

\* viewport.ensure_visible(content_row)
VpEnsureVisible ==
    /\ pc = "viewport"
    /\ \E row \in 0..MaxVpRow :
          /\ vp_row' = row
          /\ top_row' = ensure_visible(top_row, term_height, row)
          /\ vp_scrolled' = ensure_visible_scrolled(top_row, term_height, row)
    /\ UNCHANGED << pc, term_height, total_content_height, vpRest >>

\* viewport.scroll_up(lines)
VpScrollUp ==
    /\ pc = "viewport"
    /\ \E n \in 0..MaxVpHeight :
          /\ top_row' = scroll_up(top_row, n)
          /\ vp_scrolled' = scroll_up_scrolled(top_row)
    /\ UNCHANGED << pc, vp_row, term_height, total_content_height, vpRest >>

\* viewport.scroll_down(lines, max_content_height)
VpScrollDown ==
    /\ pc = "viewport"
    /\ \E n \in 0..MaxVpHeight :
          /\ top_row' = scroll_down(top_row, term_height, n, total_content_height)
          /\ vp_scrolled' = scroll_down_scrolled(top_row, term_height, total_content_height)
    /\ UNCHANGED << pc, vp_row, term_height, total_content_height, vpRest >>

NextViewport == ViewportNew \/ VpEnsureVisible \/ VpScrollUp \/ VpScrollDown

SpecViewport == InitViewport /\ [][NextViewport]_vars

----------------------------------------------------------------------------
(* display_width on its own: its calls on every short string.              *)

\* The longest of these strings.
MaxWidthLen == 5

\* The characters of these strings: one of every kind of width.
WidthChars == { "a", "\t", WIDE_CJK, COMBINING, ESC }

\* The strings of exactly n of these characters
RECURSIVE WidthStrings(_)
WidthStrings(n) ==
    IF n = 0 THEN { << >> }
    ELSE { Append(s, c) : s \in WidthStrings(n - 1), c \in WidthChars }

InitWidth == InitScan

\* What a call of display_width leaves alone.
widthRest == << raw_matches, hintVars, scanVars, reverse, trieVars, viewVars, listenVars,
               termVars, vp_row, vp_scrolled, baseVars, windowVars >>

\* display_width(s, DEFAULT_TAB_WIDTH)
DisplayWidthCall ==
    /\ pc = "start"
    /\ \E n \in 0..MaxWidthLen : \E s \in WidthStrings(n) :
          /\ dw_s' = s
          /\ dw_col' = display_width(s, DEFAULT_TAB_WIDTH)
    /\ pc' = "width"
    /\ UNCHANGED widthRest

NextWidth == DisplayWidthCall

SpecWidth == InitWidth /\ [][NextWidth]_vars

----------------------------------------------------------------------------
(* render_base_text on its own: one line in a viewport that shows all of   *)
(* its rows.                                                                *)

\* The longest of these lines and the widest of these terminals.
MaxBaseLen == 4
MaxBaseWidth == 4

\* The characters of these lines.
BaseChars == { "a", "b", "\t", WIDE_CJK, " " }

\* The lines of exactly n of these characters
RECURSIVE BaseLines(_)
BaseLines(n) ==
    IF n = 0 THEN { << >> }
    ELSE { Append(s, c) : s \in BaseLines(n - 1), c \in BaseChars }

InitBase == InitScan

\* What a call of render_base_text leaves alone.
baseRest == << raw_matches, hintVars, scanVars, reverse, trieVars, viewVars, listenVars,
              termVars, vp_row, vp_scrolled, widthVars, windowVars >>

\* render_base_text for one line in a terminal of term_width columns: the
\* sub_text of each of its rows (an empty line and an empty sub_text are
\* not written).
RenderBaseText ==
    /\ pc = "start"
    /\ \E n \in 0..MaxBaseLen, w \in 1..MaxBaseWidth : \E line \in BaseLines(n) :
          /\ rb_line' = line
          /\ rb_width' = w
          /\ rb_rows' =
                IF trim_end(line) = << >> THEN << >>
                ELSE [sub_row \in
                         1..NumWrappedRows(display_width(trim_end(line), DEFAULT_TAB_WIDTH), w)
                      |-> SubText(trim_end(line), w, sub_row - 1)]
    /\ pc' = "base_text"
    /\ UNCHANGED baseRest

NextBase == RenderBaseText

SpecBase == InitBase /\ [][NextBase]_vars

----------------------------------------------------------------------------
(* src/src/ui/window.rs: Window::new, move_by and center_on on every small *)
(* window. The usize and isize of the code are integers here: the heights  *)
(* and the amounts are numbers of lines, far below 2^63.                   *)

\* The largest total_height, and the largest amount of move_by either way.
MaxTotalHeight == 8
MaxAmount == 9

\* Window::move_by without the upper clamp.
MoveByNoUpperClamp(start, height, total_height, amount) ==
    IF start + amount < 0 THEN << 0, height >>
    ELSE << start + amount, start + amount + height >>

\* Window::move_by(amount) on a window that starts at start: the new
\* << range.start, range.end >>
move_by(start, height, total_height, amount) ==
    IF start + amount < 0 THEN << 0, height >>
    ELSE IF start + amount + height > total_height
    THEN << total_height - height, (total_height - height) + height >>
    ELSE << start + amount, start + amount + height >>

\* Window::center_on(line_index): move_by(delta), delta the distance from
\* range.start to candidate_start = line_index - height / 2
center_on(start, height, total_height, line_index) ==
    move_by(start, height, total_height, (line_index - (height \div 2)) - start)

InitWindow == InitScan

\* What a call of the window leaves alone.
windowRest == << raw_matches, hintVars, scanVars, reverse, trieVars, viewVars, listenVars,
                termVars, vp_row, vp_scrolled, widthVars, baseVars >>

\* Window::new(start, height, total_height)
WindowNew(start, height, total_height) ==
    /\ pc = "start"
    /\ IF start + height > total_height
       THEN /\ pc' = "window_panicked"
            /\ UNCHANGED windowVars
       ELSE /\ pc' = "window"
            /\ range_start' = start
            /\ range_end' = start + height
            /\ window_height' = height
            /\ window_total_height' = total_height
    /\ UNCHANGED windowRest

\* window.move_by(amount)
WindowMoveBy(amount) ==
    /\ pc \in { "window", "window_moved" }
    /\ pc' = "window_moved"
    /\ range_start' = move_by(range_start, window_height, window_total_height, amount)[1]
    /\ range_end' = move_by(range_start, window_height, window_total_height, amount)[2]
    /\ UNCHANGED << window_height, window_total_height, windowRest >>

\* window.center_on(line_index)
WindowCenterOn(line_index) ==
    /\ pc \in { "window", "window_moved" }
    /\ pc' = "window_moved"
    /\ range_start' =
          center_on(range_start, window_height, window_total_height, line_index)[1]
    /\ range_end' =
          center_on(range_start, window_height, window_total_height, line_index)[2]
    /\ UNCHANGED << window_height, window_total_height, windowRest >>

NextWindow ==
    \/ \E start \in 0..MaxTotalHeight, height \in 0..MaxTotalHeight,
          total_height \in 0..MaxTotalHeight : WindowNew(start, height, total_height)
    \/ \E amount \in (-MaxAmount)..MaxAmount : WindowMoveBy(amount)
    \/ \E line_index \in 0..(MaxTotalHeight + 1) : WindowCenterOn(line_index)

SpecWindow == InitWindow /\ [][NextWindow]_vars

----------------------------------------------------------------------------
(* Properties of the hint generator.                                       *)

\* The call of make_hints has ended, by a return or by a panic.
MakeHintsEnded == pc \in { "made", "make_hints_panicked" }

\* The letters make_hints is to draw from for n hints.
ExpectedLetters(self, n) ==
    IF Len(self) * Len(self) < n THEN Range(LongestLetters) ELSE Range(self)

\* C1: for every alphabet (a single-character one included) and every n,
\* make_hints(n) returns exactly n hints, each made of letters of the alphabet,
\* or of the longest alphabet when |A|^2 < n.
C1_ReturnsNHints ==
    MakeHintsEnded =>
        /\ pc = "made"
        /\ Len(hints) = nreq
        /\ \A h \in Range(hints) : Range(h) \subseteq ExpectedLetters(alphabet, nreq)

IsStrictPrefix(a, b) == Len(a) < Len(b) /\ SubSeq(b, 1, Len(a)) = a

\* The hints of S that are shorter than the longest one: only these can be a
\* strict prefix of a hint of S.
ShorterHints(S) ==
    { a \in S : a # << >> /\ \E l \in { Len(b) : b \in S } : Len(a) < l }

\* C2: no returned non-empty hint is a strict prefix of another returned hint:
\* a letter returned as a one-letter hint is never the first letter of a
\* returned two-letter hint, also when make_hints falls back to longest.
C2_PrefixFree ==
    pc = "made" =>
        \A a \in ShorterHints(Range(hints)) :
            \A b \in Range(hints) : ~IsStrictPrefix(a, b)

\* C3: with unique = false, for up to 2500 spans and any catalog alphabet, any
\* two different spans have different hints.
C3_DistinctHints ==
    (/\ pc = "associated"
     /\ ~unique
     /\ src_name \in CatalogNames
     /\ Len(matches) <= LongestCapacity) =>
        Cardinality({ matches[i].hint : i \in DOMAIN matches }) = Len(matches)

\* The list the procedure of make_hints ends with for m < n <= m^2, in closed
\* form: k letters are popped, k the least number with (m - k) + k * m >= n;
\* the m - k letters left stand alone, the last letter popped leads the pairs
\* that were still missing, each letter popped before it leads m pairs.
PoppedCount(m, n) == CHOOSE k \in 0..m :
    /\ (m - k) + k * m >= n
    /\ \A j \in 0..(k - 1) : (m - j) + j * m < n

ReferenceHints(L, n) ==
    LET m       == Len(L)
        k       == PoppedCount(m, n)
        partial == n - (m - k) - (k - 1) * m
    IN  [i \in 1..n |->
            IF i <= m - k THEN << L[i] >>
            ELSE IF i - (m - k) <= partial
                 THEN << L[m - k + 1], L[i - (m - k)] >>
                 ELSE LET r == i - (m - k) - partial - 1
                      IN  << L[m - k + 2 + (r \div m)], L[1 + (r % m)] >>]

Str_abcd == << "a", "b", "c", "d" >>

\* C4: n <= m gives the first n letters as one-letter hints; m < n <= m^2 gives
\* the list of the reference procedure (abcd: n=6 a,b,c,da,db,dc; n=8
\* a,b,ca,cb,da,db,dc,dd; n=13 a,ba,..,bd,ca,..,dd; ab: n=4 aa,ab,ba,bb).
C4_ReferenceProcedure ==
    pc = "made" =>
        LET m == Len(alphabet)
        IN  /\ nreq <= m => hints = [i \in 1..nreq |-> << alphabet[i] >>]
            /\ (m < nreq /\ nreq <= m * m) => hints = ReferenceHints(alphabet, nreq)
            /\ (alphabet = Str_abcd /\ nreq = 6) =>
                  hints = << <<"a">>, <<"b">>, <<"c">>,
                             <<"d", "a">>, <<"d", "b">>, <<"d", "c">> >>
            /\ (alphabet = Str_abcd /\ nreq = 8) =>
                  hints = << <<"a">>, <<"b">>, <<"c", "a">>, <<"c", "b">>,
                             <<"d", "a">>, <<"d", "b">>, <<"d", "c">>, <<"d", "d">> >>
            /\ (alphabet = Str_abcd /\ nreq = 13) =>
                  /\ SubSeq(hints, 1, 5) =
                        << <<"a">>, <<"b", "a">>, <<"b", "b">>, <<"b", "c">>, <<"b", "d">> >>
                  /\ SubSeq(hints, 6, 13) =
                        << <<"c", "a">>, <<"c", "b">>, <<"c", "c">>, <<"c", "d">>,
                           <<"d", "a">>, <<"d", "b">>, <<"d", "c">>, <<"d", "d">> >>
            /\ (alphabet = << "a", "b" >> /\ nreq = 4) =>
                  hints = << <<"a", "a">>, <<"a", "b">>, <<"b", "a">>, <<"b", "b">> >>

C4_Witness ==
    /\ pc = "made"
    /\ alphabet = Str_abcd
    /\ nreq = 13
    /\ Len(hints) = 13

\* C5: when |A|^2 < n the hints are generated from the longest alphabet; when
\* n also exceeds its capacity of 2500, the first 2500 hints are two-letter
\* hints and every hint after them is empty.
C5_FallbackAndFiller ==
    (MakeHintsEnded /\ Len(alphabet) * Len(alphabet) < nreq) =>
        /\ pc = "made"
        /\ \A h \in Range(hints) : Range(h) \subseteq Range(LongestLetters)
        /\ nreq > LongestCapacity =>
              /\ \A i \in 1..LongestCapacity : Len(hints[i]) = 2
              /\ \A i \in (LongestCapacity + 1)..nreq : hints[i] = << >>

HasReserved(s) == Range(s) \cap ReservedLetters # {}

\* C6: the alphabet parse_alphabet returns for a catalog name holds none of
\* n, N, y, Y, and neither does any hint generated from it, fallback to longest
\* included; for a name that is not in the catalog it returns UnknownAlphabet.
C6_ReservedLettersRemoved ==
    /\ (src_name \in CatalogNames /\ pc # "start") =>
          /\ pc # "failed"
          /\ ~HasReserved(alphabet)
          /\ \A h \in Range(hints) : ~HasReserved(h)
          /\ \A i \in DOMAIN matches : ~HasReserved(matches[i].hint)
    /\ (src_name \in NameInputs \ CatalogNames) =>
          /\ pc = "failed"
          /\ error = "UnknownAlphabet"
    /\ pc = "failed" => src_name \notin CatalogNames

C6_Witness ==
    /\ pc = "made"
    /\ src_name = "qwerty"
    /\ nreq > Len(alphabet) * Len(alphabet)
    /\ Len(hints) = nreq
    /\ hints[nreq] # << >>

----------------------------------------------------------------------------
(* Properties of the span extractor.                                       *)

\* The first matches, in the chunk the last iteration searched, of the
\* regexes the model was built with.
TakenAmong ==
    ChunkMatches(AllRegexes(use_all_patterns, named_patterns, custom_patterns),
                 taken.chunk)

\* C7: the spans raw_matches returns for one line are pairwise non-overlapping
\* and strictly ordered by x: for two consecutive spans s, t of a line,
\* s.x + len(s.text) <= t.x and s.x < t.x.
C7_NonOverlappingStrictOrder ==
    pc = "scanned" =>
        \A i \in 1..(Len(raw_matches) - 1) :
            raw_matches[i].y = raw_matches[i + 1].y =>
                /\ raw_matches[i].x + Bytes(raw_matches[i].text) <= raw_matches[i + 1].x
                /\ raw_matches[i].x < raw_matches[i + 1].x

\* The place of a catalog pattern in PATTERNS.
CatalogRank(name) == CHOOSE i \in DOMAIN PATTERNS : PATTERNS[i].name = name

\* The place of a first match in the list exclude ++ custom ++ catalog.
RankInCatalogList(m) ==
    IF m.name \in { "ansi_colors", "custom" } THEN m.rank
    ELSE Len(EXCLUDE_PATTERNS) + Len(custom_patterns) + CatalogRank(m.name)

\* C8 as stated: the match an iteration takes has the smallest start among the
\* first matches of all regexes in the chunk, and among those that start there
\* it is the first in the list exclude ++ custom ++ catalog.
C8_TieByCatalogOrder ==
    taken.name # "" =>
        \A k \in DOMAIN TakenAmong :
            \/ taken.start < TakenAmong[k].start
            \/ /\ taken.start = TakenAmong[k].start
               /\ RankInCatalogList(taken) <= RankInCatalogList(TakenAmong[k])

\* C8 as amended: the match an iteration takes is the first match of one of the
\* regexes, it has the smallest start among the first matches of all regexes in
\* the chunk, and among those that start there it is the first in the list
\* exclude ++ custom ++ (catalog if use_all_patterns, else the named patterns
\* in the order they were given).
C8_TieByListOrder ==
    taken.name # "" =>
        /\ \E k \in DOMAIN TakenAmong :
              /\ TakenAmong[k].rank = taken.rank
              /\ TakenAmong[k].name = taken.name
              /\ TakenAmong[k].start = taken.start
              /\ TakenAmong[k].end = taken.end
        /\ \A k \in DOMAIN TakenAmong :
              \/ taken.start < TakenAmong[k].start
              \/ /\ taken.start = TakenAmong[k].start
                 /\ taken.rank <= TakenAmong[k].rank

\* A custom pattern was taken where a built-in pattern starts at the same
\* position, in a chunk where two named patterns start together as well.
C8_Witness ==
    /\ taken.name = "custom"
    /\ ~use_all_patterns
    /\ named_patterns = << "version", "path" >>
    /\ \E k \in DOMAIN TakenAmong :
          TakenAmong[k].name = "version" /\ TakenAmong[k].start = taken.start
    /\ \E k \in DOMAIN TakenAmong :
          TakenAmong[k].name = "path" /\ TakenAmong[k].start = taken.start

\* The raw match r lies in its line at byte offset r.x.
LiesAtX(r) ==
    \E p \in 1..(Len(lines[r.y + 1]) + 1) :
        /\ ByteOffset(lines[r.y + 1], p) = r.x
        /\ p + Len(r.text) - 1 <= Len(lines[r.y + 1])
        /\ SubSeq(lines[r.y + 1], p, p + Len(r.text) - 1) = r.text

\* C9: an iteration that takes a match of ansi_colors pushes no span but moves
\* chunk and offset past the match; so the x of every span, those that follow
\* a color escape on their line included, is the byte offset of its text in
\* the raw line.
C9_ColorsAdvanceWithoutSpan ==
    /\ taken.name = "ansi_colors" =>
          /\ Len(raw_matches) = taken.spans
          /\ taken.start < taken.end
          /\ chunk = SubSeq(taken.chunk, taken.end, Len(taken.chunk))
          /\ offset = taken.offset + ByteOffset(taken.chunk, taken.end)
    /\ \A i \in DOMAIN raw_matches :
          /\ raw_matches[i].pattern # "ansi_colors"
          /\ LiesAtX(raw_matches[i])

\* A scan has returned a span that follows a color escape on its line.
C9_Witness ==
    /\ pc = "scanned"
    /\ \E i \in DOMAIN raw_matches :
          /\ Len(lines[raw_matches[i].y + 1]) > 4
          /\ SubSeq(lines[raw_matches[i].y + 1], 1, 4) = << ESC, "[", "3", "m" >>
          /\ raw_matches[i].x = 4
          /\ raw_matches[i].text = << "1", ".", "2" >>

----------------------------------------------------------------------------
(* Properties of Model::matches and of the lookup trie.                    *)

\* matches(unique) has just returned.
MatchesReturned == pc = "matched" /\ inserted = 0

\* C11: with unique = true, every pair of spans with equal text has equal
\* hint, for both values of reverse and for every number of spans.
C11_EqualTextEqualHint ==
    (MatchesReturned /\ unique) =>
        \A i, j \in 1..Len(matches) :
            matches[i].text = matches[j].text => matches[i].hint = matches[j].hint

\* Three spans, the first and the last of the same text, hinted in reverse
\* and unique mode.
C11_Witness ==
    /\ MatchesReturned /\ unique /\ reverse
    /\ Len(matches) = 3
    /\ matches[1].text = matches[3].text
    /\ matches[1].text # matches[2].text

\* The hints make_hints gives for the spans of the model.
MadeHints == make_hints(alphabet, Len(matches)).hints

\* The turn of the span of 1-based index i in scan order when the hints are
\* given: from the last span backward if reverse.
AssignTurn(i) == IF reverse THEN Len(matches) + 1 - i ELSE i

\* The span of the text of span i whose turn comes first.
FirstOfText(i) ==
    CHOOSE j \in 1..Len(matches) :
        /\ matches[j].text = matches[i].text
        /\ \A k \in 1..Len(matches) :
              matches[k].text = matches[i].text => AssignTurn(j) <= AssignTurn(k)

\* The number of distinct texts among the spans hinted up to the turn of
\* span i.
DistinctTextsUpTo(i) ==
    Cardinality({ matches[j].text : j \in { k \in 1..Len(matches) : AssignTurn(k) <= AssignTurn(i) } })

\* The returned list is in scan order, top-to-bottom and left-to-right.
InScanOrder ==
    \A i, j \in 1..Len(matches) :
        i < j => \/ matches[i].y < matches[j].y
                 \/ matches[i].y = matches[j].y /\ matches[i].x < matches[j].x

\* C12 as stated: the span of turn t (from the last span backward if reverse,
\* else in scan order) receives the t-th hint of make_hints, and the returned
\* list is in scan order.
C12_TurnGivesHint ==
    MatchesReturned =>
        /\ InScanOrder
        /\ \A i \in 1..Len(matches) : matches[i].hint = MadeHints[AssignTurn(i)]

\* C12, amended: the returned list is in scan order; without unique the span
\* of turn t receives the t-th hint of make_hints; with unique the first span
\* of a text to have its turn receives the d-th hint, d the number of distinct
\* texts met up to its turn, and the other spans of that text receive the
\* same hint.
C12_TurnGivesHintUnlessRepeated ==
    MatchesReturned =>
        /\ InScanOrder
        /\ \A i \in 1..Len(matches) :
              matches[i].hint =
                  MadeHints[IF unique THEN DistinctTextsUpTo(FirstOfText(i))
                            ELSE AssignTurn(i)]

\* Three spans hinted in reverse without unique: the last has the first hint.
C12_Witness ==
    /\ MatchesReturned /\ reverse /\ ~unique
    /\ Len(matches) = 3
    /\ matches[3].hint = MadeHints[1]
    /\ matches[1].hint = MadeHints[3]
    /\ matches[1].hint # matches[3].hint

\* build_lookup_trie has returned.
TrieBuilt == pc = "trie"

\* The first span of the hint and the text of span i (1-based indexes).
FirstSharing(i) ==
    CHOOSE j \in 1..Len(matches) :
        /\ matches[j].hint = matches[i].hint /\ matches[j].text = matches[i].text
        /\ \A k \in 1..(j - 1) :
              ~(matches[k].hint = matches[i].hint /\ matches[k].text = matches[i].text)

\* C13: walking the hint of any span through the lookup trie ends at a leaf
\* whose index refers to that span or, under unique mode, to the first span
\* that shares its hint and text.
C13_HintLeadsToOwnLeaf ==
    TrieBuilt =>
        \A i \in 1..Len(matches) :
            /\ TrieHasNode(lookup_trie, matches[i].hint)
            /\ TrieIsLeaf(lookup_trie, matches[i].hint)
            /\ TrieHasValue(lookup_trie, matches[i].hint)
            /\ \/ lookup_trie[matches[i].hint] = i - 1
               \/ unique /\ lookup_trie[matches[i].hint] = FirstSharing(i) - 1

----------------------------------------------------------------------------
(* Properties of the view controller and of the key loop.                  *)

\* The Option<Selection> present makes of an Event.
SelectionOf(ev) ==
    IF ev.kind = "Exit" THEN [some |-> FALSE]
    ELSE [some |-> TRUE, text |-> ev.text, uppercased |-> ev.uppercased,
          output_destination |-> ev.output_destination]

\* C14: round trip: in a buffer of exactly one span, once the hint of that
\* span has been typed the loop has ended with a selection of the text of the
\* span, and present, when it returns, returns that Selection.
C14_RoundTrip ==
    (Len(matches) = 1 /\ typed_hint = matches[1].hint) =>
        /\ pc \in { "listen_returned", "returned", "present_panicked" }
        /\ event.kind = "Select"
        /\ event.text = matches[1].text
        /\ pc = "returned" => selection.some /\ selection.text = matches[1].text

\* present has returned the text of the only span, whose hint was typed.
C14_Witness ==
    /\ pc = "returned"
    /\ Len(matches) = 1
    /\ typed_hint = matches[1].hint
    /\ selection.some
    /\ selection.text = matches[1].text

\* A key that changes the focus: Up, Down, Left, Right, n, N.
FocusKey == KeyUp \/ KeyDown \/ KeyLeft \/ KeyRight \/ KeyLowerN \/ KeyUpperN

\* C15: after every focus change, for a terminal height of at least 1, the
\* content row of the focused span lies within the viewport; with spans on
\* lines 5 and 180 of 200 lines and height 40, Down from focus 0 moves the
\* focus to the second span and scrolls so that row 180 is visible.
C15_FocusedRowVisible ==
    [][ /\ (FocusKey /\ term_height >= 1) =>
            /\ top_row' <= RowOfSpan(focus_index')
            /\ RowOfSpan(focus_index') < top_row' + term_height
        /\ (KeyDown /\ lines = ScrollLines /\ term_height = 40 /\ focus_index = 0) =>
            /\ focus_index' = 1
            /\ RowOfSpan(1) = 180
            /\ top_row' <= 180 /\ 180 < top_row' + 40 ]_vars

\* The 200 lines in a terminal of 40 rows, scrolled down to the second span.
C15_Witness ==
    /\ pc = "listening"
    /\ lines = ScrollLines
    /\ term_height = 40
    /\ focus_index = 1
    /\ top_row = 141
    /\ frame = "full"

\* The span before (after) the focused one, the other end of the list past
\* its ends when focus_wrap_around is set, the focused one otherwise.
PrevSpan ==
    IF focus_index > 0 THEN focus_index - 1
    ELSE IF focus_wrap_around THEN Len(matches) - 1 ELSE focus_index
NextSpan ==
    IF focus_index < Len(matches) - 1 THEN focus_index + 1
    ELSE IF focus_wrap_around THEN 0 ELSE focus_index

\* The view controller exists.
Built ==
    pc \in { "vc", "present_panicked", "listening", "listen_panicked", "listen_returned",
             "returned" }

\* C16: with at least one span the focus starts at the last span if reverse
\* and at span 0 otherwise; Up and Left move it to the previous span, Down
\* and Right to the next one, wrapping at the ends when focus_wrap_around is
\* set and staying otherwise; focus_index is always a valid index.
C16_FocusNavigation ==
    /\ [](pc = "vc" /\ Len(matches) > 0 =>
              focus_index = IF reverse THEN Len(matches) - 1 ELSE 0)
    /\ [](Built /\ Len(matches) > 0 => focus_index \in 0..(Len(matches) - 1))
    /\ [][ /\ (KeyUp \/ KeyLeft) => focus_index' = PrevSpan
           /\ (KeyDown \/ KeyRight) => focus_index' = NextSpan ]_vars

\* Three spans, focus_wrap_around set, the focus on the last one of a model
\* that started on the first: only a move to the previous span from the
\* first one, or two moves to the next, lead there.
C16_Witness ==
    /\ pc = "listening"
    /\ focus_wrap_around /\ ~reverse
    /\ Len(matches) = 3
    /\ focus_index = 2

\* C17: n moves the focus to the next span and N to the previous one when
\* reverse is false, and the other way round when reverse is true; the arrow
\* keys move the same way for both values of reverse.
C17_NextPrevSwapped ==
    [][ /\ KeyLowerN => focus_index' = IF reverse THEN PrevSpan ELSE NextSpan
        /\ KeyUpperN => focus_index' = IF reverse THEN NextSpan ELSE PrevSpan
        /\ \A r \in BOOLEAN :
              /\ (reverse = r /\ (KeyUp \/ KeyLeft)) => focus_index' = PrevSpan
              /\ (reverse = r /\ (KeyDown \/ KeyRight)) => focus_index' = NextSpan ]_vars

\* A reverse model of three spans without wrap-around, the focus off the
\* last span where it started.
C17_Witness ==
    /\ pc = "listening"
    /\ reverse /\ ~focus_wrap_around
    /\ Len(matches) = 3
    /\ focus_index = 1

\* C18: in any state of the loop y or Enter ends it with a Selection of the
\* text of the focused span and uppercased = false, Y with uppercased = true,
\* whatever was typed before; the destination is the current one; present
\* returns the Selection of the loop.
C18_YankFocused ==
    [][ /\ KeyYank =>
            /\ pc' = "listen_returned"
            /\ event' = [kind |-> "Select", text |-> matches[focus_index + 1].text,
                         uppercased |-> FALSE, output_destination |-> output_destination]
        /\ KeyUpperY =>
            /\ pc' = "listen_returned"
            /\ event' = [kind |-> "Select", text |-> matches[focus_index + 1].text,
                         uppercased |-> TRUE, output_destination |-> output_destination]
        /\ (PresentReturn /\ pc' = "returned") => selection' = SelectionOf(event) ]_vars

\* A Selection not uppercased, for the toggled destination, returned after
\* an uppercase hint character was typed and the focus was moved.
C18_Witness ==
    /\ pc = "returned"
    /\ typed_hint # << >> /\ uppercased
    /\ focus_index = 1 /\ ~reverse
    /\ selection.some
    /\ ~selection.uppercased
    /\ selection.text = matches[2].text
    /\ selection.output_destination # default_output_destination

\* The uppercase characters among the keys typed.
UppercaseKeys == { "A", "B" }

\* The hints of the trie that go on from path (path included).
HintsThrough(path) == { k \in DOMAIN lookup_trie : StartsWith(k, path) }

\* What listen does once typed_hint has become path with the flag upper.
AfterTyping(path, upper) ==
    IF HintsThrough(path) = { }
    THEN pc' = "listen_returned" /\ event' = [kind |-> "Exit"]
    ELSE IF HintsThrough(path) = { path }
    THEN /\ pc' = "listen_returned"
         /\ event' = [kind |-> "Select", text |-> matches[lookup_trie[path] + 1].text,
                      uppercased |-> upper, output_destination |-> output_destination]
    ELSE pc' = "listening" /\ event' = event

\* C19: any other character key c appends lowercase(c) to typed_hint and
\* sets uppercased if c is uppercase, the flag staying set; then the loop
\* exits without selection if typed_hint is no path of the trie, selects the
\* span of the leaf with the accumulated flag if it reaches a leaf, and keeps
\* waiting at an internal node.
C19_TypedHint ==
    [][ KeyChar =>
          \E c \in HintKeys :
             /\ typed_hint' =
                   Append(typed_hint, IF c = "A" THEN "a" ELSE IF c = "B" THEN "b" ELSE c)
             /\ uppercased' = (uppercased \/ c \in UppercaseKeys)
             /\ AfterTyping(typed_hint', uppercased') ]_vars

\* A span selected by a hint of two letters, typed after the destination
\* was toggled, of which the first was typed in uppercase.
C19_Witness ==
    /\ pc = "listen_returned"
    /\ Len(typed_hint) = 2
    /\ uppercased
    /\ spaces = 1
    /\ event.kind = "Select"
    /\ event.uppercased
    /\ event.output_destination # default_output_destination
    /\ \E i \in 1..Len(matches) : matches[i].hint = typed_hint /\ event.text = matches[i].text

\* C20: every Space toggles output_destination and keeps the loop running;
\* the destination is the default one after an even number of Space keys and
\* the other one after an odd number, in the Selection returned as well.
C20_SpaceToggles ==
    /\ [][ KeySpace => /\ pc' = "listening"
                       /\ output_destination' # output_destination
                       /\ output_destination' \in OutputDestinations ]_vars
    /\ [](pc = "listening" =>
             output_destination = IF spaces = 0 THEN default_output_destination
                                  ELSE toggle(default_output_destination))
    /\ [](pc = "returned" /\ selection.some =>
             selection.output_destination = IF spaces = 0 THEN default_output_destination
                                            ELSE toggle(default_output_destination))

\* C21: the key loop returns only on Esc, on a character key that takes
\* typed_hint off the trie, or on a completed selection (y, Enter, Y, or the
\* last letter of a hint); an unknown key is ignored: the loop keeps running
\* and focus, viewport, typed_hint, uppercased and destination are unchanged.
C21_LoopEnds ==
    /\ [][ (pc = "listening" /\ pc' = "listen_returned") =>
              \/ KeyEsc
              \/ KeyYank
              \/ KeyUpperY
              \/ /\ Len(typed_hint') = Len(typed_hint) + 1
                 /\ HintsThrough(typed_hint') = { }
                 /\ event' = EventExit
              \/ /\ Len(typed_hint') = Len(typed_hint) + 1
                 /\ HintsThrough(typed_hint') = { typed_hint' }
                 /\ event'.kind = "Select" ]_vars
    /\ [][ KeyUnknown =>
              /\ pc' = "listening"
              /\ UNCHANGED << focus_index, top_row, typed_hint, uppercased,
                              output_destination >> ]_vars

\* The loop has ended on a character key that took typed_hint off the trie,
\* after a letter that kept it on the trie.
C21_Witness ==
    /\ pc = "listen_returned"
    /\ event = EventExit
    /\ Len(typed_hint) = 2
    /\ HintsThrough(typed_hint) = { }
    /\ HintsThrough(SubSeq(typed_hint, 1, 1)) # { }

\* Two spans of the url pattern, the hint of the first one being a.
TwoUrls ==
    /\ Len(matches) = 2
    /\ \A i \in 1..2 : matches[i].pattern = "url"
    /\ matches[1].hint = << "a" >>

\* present has returned after the lowercase key a, typed as the first
\* character key, with the destination toggled an even number of times.
ReturnedAfterLowerA ==
    /\ TwoUrls
    /\ pc = "returned"
    /\ typed_hint = << "a" >>
    /\ ~uppercased
    /\ spaces = 0

\* C22: on an input with two URLs in which the first span's hint is a, when
\* the user presses a then Y the returned Selection has the first URL's
\* text, uppercased = true and the default destination.
C22_LowerAThenUpperY ==
    ReturnedAfterLowerA =>
        selection = [some |-> TRUE, text |-> matches[1].text, uppercased |-> TRUE,
                     output_destination |-> default_output_destination]

\* C22 amended: the key a ends the loop at once, so that a following Y is
\* never read: the returned Selection has the first URL's text, the default
\* destination and uppercased = false; it has uppercased = true when the
\* hint was typed as A.
C22_HintKeySelectsAtOnce ==
    /\ [](ReturnedAfterLowerA =>
             selection = [some |-> TRUE, text |-> matches[1].text, uppercased |-> FALSE,
                          output_destination |-> default_output_destination])
    /\ []((TwoUrls /\ pc = "returned" /\ typed_hint = << "a" >> /\ uppercased
              /\ spaces = 0) =>
             selection = [some |-> TRUE, text |-> matches[1].text, uppercased |-> TRUE,
                          output_destination |-> default_output_destination])
    /\ [][ (TwoUrls /\ pc = "listening" /\ typed_hint = << >>
               /\ typed_hint' = << "a" >>) =>
              /\ pc' = "listen_returned"
              /\ event'.kind = "Select"
              /\ event'.text = matches[1].text ]_vars

\* The first of two URLs returned after the lowercase key a.
C22_Witness ==
    /\ ReturnedAfterLowerA
    /\ selection.some
    /\ selection.text = UrlLines[1]
    /\ ~selection.uppercased

\* The model is built and has no span.
Spanless ==
    /\ pc \in { "trie", "vc", "new_panicked", "present_panicked", "listening",
                "listen_panicked", "listen_returned", "returned" }
    /\ Spans = << >>

\* C23: for an input that yields zero spans (an empty buffer, a buffer
\* without any match, a buffer of ANSI colour escapes only) the result is
\* None immediately: the key loop is never entered, nothing is rendered, and
\* the focus of both values of reverse is 0.
C23_NoSpansNone ==
    Spanless =>
        /\ pc \notin { "listening", "listen_panicked" }
        /\ frame = "none"
        /\ focus_index = 0
        /\ pc = "listen_returned" => event = EventExit
        /\ pc = "returned" => selection = [some |-> FALSE]

\* None returned by present for a buffer of ANSI colour escapes only, with
\* reverse set.
C23_Witness ==
    /\ Spanless
    /\ pc = "returned"
    /\ event = EventExit
    /\ selection = [some |-> FALSE]
    /\ reverse
    /\ lines # << >>
    /\ lines[1] # << >>
    /\ lines[1][1] = ESC

\* present has ended, by a return or by a panic.
PresentEnded == pc \in { "returned", "present_panicked", "listen_panicked" }

\* C24: on every exit path of present (a selection, a cancellation, a panic
\* raised inside the key loop or a render) the terminal is restored: the
\* cursor is shown again, raw mode is left and the alternate screen is left.
C24_TerminalRestored ==
    PresentEnded => ~cursor_hidden /\ ~raw_mode /\ ~alternate_screen

----------------------------------------------------------------------------
(* Further properties of Model::raw_matches.                               *)

\* The match the last iteration took, as found in its chunk, groups included.
TakenInChunk ==
    Find(AllRegexes(use_all_patterns, named_patterns, custom_patterns)[taken.rank].re,
         taken.chunk)

\* Capture group 1 of the taken match if it took part, else the whole match:
\* its 1-based position in the chunk of the iteration and its text.
GroupOfTaken ==
    IF TakenInChunk.g # << >>
    THEN [at |-> TakenInChunk.g[1],
          text |-> SubSeq(taken.chunk, TakenInChunk.g[1], TakenInChunk.g[2] - 1)]
    ELSE [at |-> taken.start, text |-> SubSeq(taken.chunk, taken.start, taken.end - 1)]

\* The last iteration pushed a span.
PushedSpan ==
    /\ pc = "loop"
    /\ taken # NoneTaken
    /\ Len(raw_matches) = taken.spans + 1

\* C25: the text of every emitted span is capture group 1 of the taken match
\* if that group exists, else the whole match, and the span lies in its
\* line at x = offset + match start + capture start, in bytes:
\* lines[y][x .. x + len(text)] = text.
C25_SpanIsGroupOne ==
    PushedSpan =>
        /\ raw_matches[Len(raw_matches)].text = GroupOfTaken.text
        /\ raw_matches[Len(raw_matches)].x
              = taken.offset + ByteOffset(taken.chunk, GroupOfTaken.at)
        /\ LiesAtX(raw_matches[Len(raw_matches)])

\* C26: the scan loop of a line terminates for every line and every pattern
\* list, custom patterns included: every iteration that takes a match leaves
\* a chunk that is shorter by the end of the match, which is at least one
\* character, and the loop stops when no regex matches.
C26_ScanLoopTerminates ==
    [][ (pc = "loop" /\ pc' = "loop") =>
           /\ taken'.end > 1
           /\ Len(chunk') = Len(chunk) - (taken'.end - 1)
           /\ Len(chunk') < Len(chunk) ]_vars

----------------------------------------------------------------------------
(* Properties of the viewport.                                             *)

\* What ensure_visible(row) is to do to a viewport at top of the given
\* height, ends_visible telling whether row has to be visible afterwards.
EnsuresVisible(top, height, row, new_top, returned, ends_visible) ==
    IF is_visible(top, height, row)
    THEN new_top = top /\ ~returned
    ELSE /\ new_top = IF row < top THEN row ELSE row - height + 1
         /\ returned
         /\ ends_visible => is_visible(new_top, height, row)

\* C27: ensure_visible(row) leaves top_row unchanged and returns false when
\* row is already visible; otherwise it sets top_row to row (row above the
\* viewport) or to row - height + 1 (row below it), returns true, and row
\* is visible afterwards.
C27_EnsureVisible ==
    [][ VpEnsureVisible =>
           EnsuresVisible(top_row, term_height, vp_row', top_row', vp_scrolled', TRUE) ]_vars

\* C27 amended: the same, row being visible afterwards when the height of the
\* viewport is at least 1; a viewport of height 0 shows no row, and
\* ensure_visible(row) then sets top_row to row if row is above it and to
\* row + 1 otherwise, and returns true.
C27_EnsureVisibleIfHigh ==
    [][ VpEnsureVisible =>
           /\ EnsuresVisible(top_row, term_height, vp_row', top_row', vp_scrolled',
                             term_height >= 1)
           /\ term_height = 0 =>
                 /\ vp_scrolled'
                 /\ ~is_visible(top_row', term_height, vp_row')
                 /\ top_row' = IF vp_row' < top_row THEN vp_row' ELSE vp_row' + 1 ]_vars

\* A viewport of two rows or more that ensure_visible has scrolled down to a
\* row, which is now its last row.
C27_Witness ==
    /\ pc = "viewport"
    /\ term_height >= 2
    /\ vp_scrolled
    /\ top_row > 0
    /\ vp_row = top_row + term_height - 1

\* The largest top_row that keeps the viewport inside the content.
MaxTopRow ==
    IF total_content_height > term_height THEN total_content_height - term_height ELSE 0

\* C28: from the start of the key loop on, after any sequence of PageUp,
\* PageDown and focus-change keys, top_row lies within
\* [0, max(0, total_content_height - height)]; PageUp and PageDown move
\* top_row by height / 2, clamped to that range, and repaint the screen in
\* full only when scroll_up or scroll_down reports a scroll.
C28_TopRowInBounds ==
    /\ [](pc = "listening" => (0 <= top_row /\ top_row <= MaxTopRow))
    /\ [][ KeyPageUp =>
              /\ top_row' = IF top_row > term_height \div 2
                            THEN top_row - term_height \div 2 ELSE 0
              /\ IF scroll_up_scrolled(top_row)
                 THEN frame' = "full" /\ painted' = full_render(focus_index, top_row')
                 ELSE UNCHANGED << top_row, frame, painted >> ]_vars
    /\ [][ (KeyPageDown /\ top_row <= MaxTopRow) =>
              /\ top_row' = Min(top_row + term_height \div 2, MaxTopRow)
              /\ IF scroll_down_scrolled(top_row, term_height, total_content_height)
                 THEN frame' = "full" /\ painted' = full_render(focus_index, top_row')
                 ELSE UNCHANGED << top_row, frame, painted >> ]_vars

----------------------------------------------------------------------------
(* Properties of the renders.                                              *)

\* What the screen is to show of the span of 0-based index i when the
\* viewport is at top and the span of index focus is focused.
Shown(i, focus, top) ==
    IF ~is_visible(top, term_height, RowOfSpan(i)) THEN Unpainted
    ELSE IF i = focus THEN [text |-> "focused", hint |-> FALSE]
    ELSE [text |-> "span", hint |-> TRUE]

\* C29: after every render the screen shows the hint of each visible span
\* other than the focused one and never that of the focused span, the text
\* of the focused span in the focused colours and the text of every other
\* visible span in the span colours, and nothing of a span whose content row
\* is outside the viewport.
C29_RenderedSpans ==
    pc = "listening" =>
        \A i \in 0..(Len(Spans) - 1) : screen[i] = Shown(i, focus_index, top_row)

\* The writes of render_span for the span of index i shown as focused or not.
TextOf(i, focused) == [op |-> "text", span |-> i, focused |-> focused]
HintOf(i) == [op |-> "hint", span |-> i, offset |-> hint_offset(i)]

\* C30: on a focus change that does not require scrolling only the two
\* affected spans are repainted, first the previously focused span (if it is
\* in the viewport) as unfocused with its hint and then the newly focused
\* span as focused without hint; on a focus change that scrolls the viewport
\* the screen is cleared and repainted in full, every span of the new
\* viewport included.
C30_FocusChangeRepaints ==
    [][ (FocusKey /\ focus_index' # focus_index) =>
           IF is_visible(top_row, term_height, RowOfSpan(focus_index'))
           THEN /\ top_row' = top_row
                /\ frame' = "diff"
                /\ painted' =
                      (IF is_visible(top_row, term_height, RowOfSpan(focus_index))
                       THEN << TextOf(focus_index, FALSE), HintOf(focus_index) >>
                       ELSE << >>)
                      \o << TextOf(focus_index', TRUE) >>
           ELSE /\ top_row' # top_row
                /\ frame' = "full"
                /\ painted'[1] = [op |-> "clear"]
                /\ painted' = full_render(focus_index', top_row')
                /\ \A i \in 0..(Len(Spans) - 1) :
                      is_visible(top_row', term_height, RowOfSpan(i)) =>
                          \E k \in 3..Len(painted') :
                              painted'[k] = TextOf(i, i = focus_index') ]_vars

\* A focus change without scrolling has repainted the previously focused
\* span and then the newly focused one.
C30_Witness ==
    /\ pc = "listening"
    /\ frame = "diff"
    /\ Len(painted) = 3
    /\ painted[1].span # focus_index
    /\ painted[1] = TextOf(painted[1].span, FALSE)
    /\ painted[2] = HintOf(painted[1].span)
    /\ painted[3] = TextOf(focus_index, TRUE)

\* ---------------------------------------------------------------------
\* Properties of the order of the writes within one frame
\* ---------------------------------------------------------------------

\* C31: within one full frame the base text is painted before any span text,
\* and every span text is painted before any hint overlay.
C31_LayersInOrder ==
    (pc = "listening" /\ frame = "full") =>
        /\ \A k \in 1..Len(painted) :
              painted[k].op \in { "text", "hint" } =>
                  \E b \in 1..(k - 1) : painted[b].op = "base"
        /\ \A k \in 1..Len(painted) : \A l \in 1..Len(painted) :
              (painted[k].op = "text" /\ painted[l].op = "hint") => k < l

\* ---------------------------------------------------------------------
\* Properties of display_width
\* ---------------------------------------------------------------------

\* The width of the first n characters of s as the sentence on display_width
\* gives it: a tab leads from column c to 8 * (c / 8 + 1), a wide character
\* adds 2, a combining character 0 and, with controls = FALSE, every other
\* character 1; with controls = TRUE a control character adds 0 as well.
RECURSIVE StatedWidth(_, _, _)
StatedWidth(s, n, controls) ==
    IF n = 0 THEN 0
    ELSE IF s[n] = "\t" THEN 8 * ((StatedWidth(s, n - 1, controls) \div 8) + 1)
    ELSE StatedWidth(s, n - 1, controls)
         + (IF s[n] = WIDE_CJK THEN 2
            ELSE IF s[n] = COMBINING THEN 0
            ELSE IF controls /\ s[n] = ESC THEN 0
            ELSE 1)

\* The characters of s are none of cs.
Without(s, cs) == \A k \in 1..Len(s) : s[k] \notin cs

\* C32 as stated: display_width leads a tab from column c to 8 * (c / 8 + 1)
\* and adds 2 for a wide character, 0 for a combining character and 1 for
\* every other character, and a string without tabs or wide characters is as
\* wide as its number of characters.
C32_DisplayWidth ==
    pc = "width" =>
        /\ dw_col = StatedWidth(dw_s, Len(dw_s), FALSE)
        /\ Without(dw_s, { "\t", WIDE_CJK }) => dw_col = Len(dw_s)

\* C32 amended: display_width leads a tab from column c to 8 * (c / 8 + 1)
\* and adds 2 for a wide character, 0 for a combining character or a
\* control character and 1 for every other character; a string without
\* tabs, wide, combining or control characters is as wide as its number of
\* characters.
C32_DisplayWidthControls ==
    pc = "width" =>
        /\ dw_col = StatedWidth(dw_s, Len(dw_s), TRUE)
        /\ Without(dw_s, { "\t", WIDE_CJK, COMBINING, ESC }) => dw_col = Len(dw_s)

\* A tab at column 7 has ended at column 8.
C32_Witness ==
    /\ pc = "width"
    /\ dw_s = << WIDE_CJK, WIDE_CJK, WIDE_CJK, "a", "\t" >>
    /\ dw_col = 8

\* ---------------------------------------------------------------------
\* Properties of the focus and the viewport
\* ---------------------------------------------------------------------

\* C33: while listen waits for a key, after any keys (PageUp and PageDown
\* included), the content row of the focused span is inside the viewport.
C33_FocusOnScreen ==
    pc = "listening" => is_visible(top_row, term_height, RowOfSpan(focus_index))

\* ---------------------------------------------------------------------
\* Properties of the keys that are no hint characters
\* ---------------------------------------------------------------------

\* C34: the navigation keys (arrows, n, N), PageUp, PageDown and Space leave
\* typed_hint and uppercased as they are, and the trie and the spans with
\* them: the hint prefix typed before such a key is still pending after it
\* and the next hint character completes the same hint.
C34_KeysKeepTypedHint ==
    [][ (FocusKey \/ KeyPageUp \/ KeyPageDown \/ KeySpace) =>
           /\ typed_hint' = typed_hint
           /\ uppercased' = uppercased
           /\ lookup_trie' = lookup_trie
           /\ matches' = matches ]_vars

\* A hint of two characters has selected its span in a loop that has also
\* moved the focus and toggled the destination.
C34_Witness ==
    /\ pc = "listen_returned"
    /\ Len(typed_hint) = 2
    /\ frame = "diff"
    /\ spaces = 1
    /\ event.kind = "Select"
    /\ \E i \in 1..Len(Spans) :
          /\ Spans[i].hint = typed_hint
          /\ event.text = Spans[i].text

\* ---------------------------------------------------------------------
\* Properties of the hint offset
\* ---------------------------------------------------------------------

\* C35: with hint_alignment = Trailing the offset text.len() - hint.len()
\* never underflows: the hint of every span of the model is not longer than
\* the text of the span, and every hint painted lies inside the columns of
\* its span and ends at its trailing edge.
C35_TrailingOffset ==
    (pc \in { "vc", "listening" } /\ hint_alignment = "Trailing") =>
        /\ \A i \in 0..(Len(Spans) - 1) :
              /\ Bytes(Spans[i + 1].hint) <= Bytes(Spans[i + 1].text)
              /\ hint_offset(i) >= 0
              /\ hint_offset(i) + Bytes(Spans[i + 1].hint) = Bytes(Spans[i + 1].text)
        /\ ~HintUnderflows(painted)

\* ---------------------------------------------------------------------
\* Properties of render_base_text
\* ---------------------------------------------------------------------

\* The rows lo..hi of rows, one after the other.
RECURSIVE ConcatRows(_, _, _)
ConcatRows(rows, lo, hi) ==
    IF lo > hi THEN << >> ELSE rows[lo] \o ConcatRows(rows, lo + 1, hi)

\* C36: the substrings render_base_text paints for the wrapped rows of a
\* line, put together in the order of the rows, are the line without its
\* trailing whitespace: no character is dropped and none is painted twice.
C36_RowsMakeLine ==
    pc = "base_text" => ConcatRows(rb_rows, 1, Len(rb_rows)) = trim_end(rb_line)

\* ---------------------------------------------------------------------
\* Properties of the length of the hints
\* ---------------------------------------------------------------------

\* C37: with unique = true, when the number of distinct span texts does not
\* exceed the number of letters of the alphabet, the hint of every span is a
\* single character, whatever the number of spans.
C37_UniqueHintsShort ==
    (pc = "associated" /\ unique
        /\ Cardinality({ raw_matches[i].text : i \in 1..Len(raw_matches) }) <= Len(alphabet)) =>
        \A i \in 1..Len(matches) : Len(matches[i].hint) = 1

\* ---------------------------------------------------------------------
\* Properties of the notification of the host
\* ---------------------------------------------------------------------

\* C38: the Space key toggles the destination and the key loop goes on,
\* also when the notification of the host has failed: the step of Space
\* never ends the loop.
C38_SpaceNeverAborts ==
    [][ KeySpace =>
           /\ output_destination' = toggle(output_destination)
           /\ pc' = "listening" ]_vars

\* ---------------------------------------------------------------------
\* Properties of the window
\* ---------------------------------------------------------------------

\* v kept between lo and hi
Clamped(v, lo, hi) == IF v < lo THEN lo ELSE IF v > hi THEN hi ELSE v

\* C39: a window made by Window::new keeps its height and stays inside the
\* buffer after any calls of move_by and center_on (range.end = range.start
\* + height <= total_height); move_by(a) moves the start by a, clamped to 0
\* and to total_height - height; center_on(i) sets the start to
\* i - height / 2 clamped the same way; and Window::new panics exactly when
\* start + height > total_height.
C39_WindowInBuffer ==
    /\ [](pc \in { "window", "window_moved" } =>
             /\ range_end = range_start + window_height
             /\ range_end <= window_total_height
             /\ range_start >= 0)
    /\ [][ \A a \in (-MaxAmount)..MaxAmount :
              WindowMoveBy(a) =>
                  /\ range_start' = Clamped(range_start + a, 0,
                                            window_total_height - window_height)
                  /\ window_height' = window_height
                  /\ window_total_height' = window_total_height ]_vars
    /\ [][ \A i \in 0..(MaxTotalHeight + 1) :
              WindowCenterOn(i) =>
                  /\ range_start' = Clamped(i - (window_height \div 2), 0,
                                            window_total_height - window_height)
                  /\ window_height' = window_height
                  /\ window_total_height' = window_total_height ]_vars
    /\ [][ \A s \in 0..MaxTotalHeight, h \in 0..MaxTotalHeight, t \in 0..MaxTotalHeight :
              WindowNew(s, h, t) => ((pc' = "window_panicked") <=> (s + h > t)) ]_vars

\* A window moved to the end of its buffer by a clamped call.
C39_Witness ==
    /\ pc = "window_moved"
    /\ window_height = 3
    /\ window_total_height = 8
    /\ range_start = 5
    /\ range_end = 8

====
